---- MODULE Spec2Model ----
(***************************************************************************)
(* Model of the form validation engine: ValidationManager (rule runner,    *)
(* cache, cancellation), FormStateManager (errors, touched, validity),     *)
(* the debounce adapter, the field watchers and submit.                    *)
(*                                                                         *)
(* A field path is the tuple of its dot-separated segments:                *)
(* 'contacts.0.name' is <<"contacts", "0", "name">>, 'name' is <<"name">>. *)
(***************************************************************************)
EXTENDS Integers, Sequences, FiniteSets, TLC

VARIABLES
    values,            \* FormStateManager.values: top-level field -> value
    rules,             \* ValidationManager.rules: rule path -> chain of rules
    stateRules,        \* FormStateManager.rules
    fieldDependencies, \* ValidationManager.fieldDependencies: rule path ->
                       \* the paths its rules depend on
    initialValues,     \* FormStateManager.initialValues: field -> the value,
                       \* or that it is the very object values holds
    obj,               \* the object the application hands to setNestedValue
    expandedRulesCache, \* ValidationManager.expandedRulesCache
    errors,            \* shared error store: path -> list of messages
    touched,           \* path -> BOOLEAN
    isValidating,      \* path -> BOOLEAN
    validationCache,   \* path -> [value, errors]
    abortControllers,  \* path -> id of the invocation owning the controller
    aborted,           \* ids of the controllers whose signal is aborted
    pending,           \* validateField invocations suspended on an await
    nextId,            \* next invocation / controller id
    timeoutId,         \* debounce closure: timeoutId (0 is null)
    pendingReject,     \* debounce closure: pendingReject (0 is null)
    timers,            \* debounce timers scheduled and not yet fired or cleared
    running,           \* debounce calls whose checker is executing
    watchQueued,       \* field -> the watcher job is queued for the post flush
    watchOld,          \* field -> the value the watcher saw last
    tasks,             \* watcher callbacks suspended on an await
    formCall,          \* the validateForm call in progress, if any
    isSubmitting,      \* FormStateManager.isSubmitting
    submitPc,          \* position of the submit() call
    hist               \* observations about past steps (not program state)

vars == <<values, rules, stateRules, fieldDependencies, initialValues, obj,
          expandedRulesCache,
          errors, touched, isValidating,
          validationCache, abortControllers, aborted, pending, nextId,
          timeoutId, pendingReject, timers, running, watchQueued, watchOld,
          tasks, formCall, isSubmitting, submitPc, hist>>

----------------------------------------------------------------------------
(* Bounds *)

\* calls the application makes in one behaviour (value assignments and
\* calls of the form's methods)
MaxOps == 3

\* watcher callbacks suspended at the same time
MaxTasks == 2

\* elements an array field holds at most
MaxLen == 3

----------------------------------------------------------------------------
(* Values and small helpers *)

Null == "<null>"
Undefined == "<undefined>"

Put(f, k, v) == [x \in (DOMAIN f) \cup {k} |-> IF x = k THEN v ELSE f[x]]
Del(f, k) == [x \in (DOMAIN f) \ {k} |-> f[x]]
Get(f, k, dflt) == IF k \in DOMAIN f THEN f[k] ELSE dflt

\* key === path or key.startsWith(path + '.'), on paths as tuples
IsPrefix(p, q) == Len(p) <= Len(q) /\ SubSeq(q, 1, Len(p)) = p

\* Record<string, T>[key] on the reactive maps: a missing key is falsy / empty
ErrorsOf(errs, key) == Get(errs, key, <<>>)

----------------------------------------------------------------------------
(* Rules.  A rule call yields                                               *)
(*   [kind |-> "sync", res]      a plain (non-thenable) result              *)
(*   [kind |-> "resolved", res]  a promise already settled with res         *)
(*   [kind |-> "custom"]         a promise the validator settles later      *)
(*   [kind |-> "debounced"]      a promise waiting on the debounce adapter  *)

MsgRequired == "This field is required"
MsgMismatch == "Must match password field"
MsgRequiredIf == "Company is required"
MsgCustom == "Validation failed"
MsgRemote == "Value is not allowed"
MsgSuperseded == "Debounce superseded"
MsgFault == "checker failed"
MsgAtLeastOne == "Need at least one"

\* BasicRules.required: a plain function
required(v) ==
    IF v = Null \/ v = Undefined \/ v = ""
    THEN [kind |-> "sync", res |-> MsgRequired]
    ELSE [kind |-> "sync", res |-> Null]

\* values[fieldName] of a plain object
FormValue(vals, fieldName) == Get(vals, fieldName, Undefined)

Falsy(v) == v = "" \/ v = Null \/ v = Undefined

\* the default message of sameAs: `Must match ${fieldName} field`
MismatchMessage(fieldName) ==
    IF fieldName = "password" THEN MsgMismatch
    ELSE "Must match contacts.*.email field"

\* AdvancedRules.sameAs: an async function, so every call returns a promise
sameAs(fieldName, v, vals) ==
    [kind |-> "resolved",
     res |-> IF Falsy(v) /\ Falsy(FormValue(vals, fieldName)) THEN Null
             ELSE IF v = FormValue(vals, fieldName) THEN Null
             ELSE MismatchMessage(fieldName)]

\* AdvancedRules.requiredIf: an async function as well
requiredIf(conditionField, conditionValue, msg, v, vals) ==
    [kind |-> "resolved",
     res |-> IF FormValue(vals, conditionField) # conditionValue THEN Null
             ELSE IF v = Null \/ v = Undefined \/ v = "" THEN msg
             ELSE Null]

\* AdvancedRules.custom around the synchronous validator v => v === 'secret':
\* the wrapper is async and awaits Promise.resolve(validator(...))
customSync(v) ==
    [kind |-> "resolved", res |-> IF v = "secret" THEN Null ELSE MsgCustom]

\* AdvancedRules.custom around a validator that returns a pending promise
customAsync(v) == [kind |-> "custom"]

\* AdvancedRules.remote: async v => { if (!v) return null; await debounced(v) }
remote(v) ==
    IF Falsy(v) THEN [kind |-> "resolved", res |-> Null]
    ELSE [kind |-> "debounced"]

\* a plain rule written by the application that throws on an empty value:
\* v => { if (!v) throw new Error('checker failed'); return null }
throwing(v) ==
    IF Falsy(v) THEN [kind |-> "thrown", res |-> MsgFault]
    ELSE [kind |-> "sync", res |-> Null]

\* a plain rule written by the application for an array field:
\* arr => !Array.isArray(arr) || arr.length === 0 ? 'Need at least one' : null
atLeastOne(arr) ==
    IF Len(arr) = 0 THEN [kind |-> "sync", res |-> MsgAtLeastOne]
    ELSE [kind |-> "sync", res |-> Null]

\* the rule objects used in the rule collections below
RuleCall(rule, v, vals) ==
    CASE rule = "required" -> required(v)
      [] rule = "atLeastOne" -> atLeastOne(v)
      [] rule = "throwing" -> throwing(v)
      [] rule = "sameAsPassword" -> sameAs("password", v, vals)
      [] rule = "sameAsEmail" -> sameAs("contacts.*.email", v, vals)
      [] rule = "requiredIfBusiness" ->
            requiredIf("type", "business", MsgRequiredIf, v, vals)
      [] rule = "customSync" -> customSync(v)
      [] rule = "customAsync" -> customAsync(v)
      [] rule = "remote" -> remote(v)

\* rule.__crossField?.dependsOn
CrossFieldDependsOn(rule) ==
    CASE rule = "sameAsPassword" -> {<<"password">>}
      [] rule = "sameAsEmail" -> {<<"contacts", "*", "email">>}
      [] rule = "requiredIfBusiness" -> {<<"type">>}
      [] OTHER -> {}

----------------------------------------------------------------------------
(* Path resolver and wildcard expander *)

\* The fields of the forms below that hold an array; its elements are
\* objects whose properties hold strings (those of tags are strings).  Every
\* other field holds a string.
ArrayFields == {"contacts", "items", "tags"}

\* index.toString() and its inverse on the indices used
Digits == <<"0", "1", "2", "3", "4", "5">>
IndexStr(index) == Digits[index + 1]
IsIndex(key) == \E i \in 1..Len(Digits) : Digits[i] = key
ParseIndex(key) == (CHOOSE i \in 1..Len(Digits) : Digits[i] = key) - 1

\* getNestedValue: path.split('.').reduce((current, key) => current?.[key])
getNestedValue(vals, path) ==
    IF path = <<>> THEN Undefined
    ELSE IF path[1] \notin DOMAIN vals THEN Undefined
    ELSE IF Len(path) = 1 THEN vals[path[1]]
    ELSE IF path[1] \notin ArrayFields THEN Undefined
    ELSE IF ~IsIndex(path[2]) THEN Undefined
    ELSE IF ParseIndex(path[2]) >= Len(vals[path[1]]) THEN Undefined
    ELSE LET element == vals[path[1]][ParseIndex(path[2]) + 1]
         IN  IF Len(path) = 2 THEN element
             ELSE IF Len(path) = 3 /\ path[3] \in DOMAIN element
             THEN element[path[3]]
             ELSE Undefined

\* Objects handed to setNestedValue are trees of nodes: a plain mapping or
\* an array with its properties in kids, a primitive value, or null.
NullNode == [kind |-> "null", kids |-> <<>>, val |-> ""]
Leaf(v) == [kind |-> "leaf", kids |-> <<>>, val |-> v]
Container(kind) == [kind |-> kind, kids |-> <<>>, val |-> ""]

\* keys.reduce(...) from keys[index] on, then target[lastKey] = value.
\* `key in current` and the assignment throw a TypeError on a primitive or
\* null: ok is FALSE and nothing has been written.
RECURSIVE setNestedTarget(_, _, _, _, _)
setNestedTarget(current, keys, index, lastKey, value) ==
    IF current.kind \in {"leaf", "null"}
    THEN [ok |-> FALSE, node |-> current]
    ELSE IF index > Len(keys)
    THEN [ok |-> TRUE,
          node |-> [current EXCEPT !.kids = Put(@, lastKey, Leaf(value))]]
    ELSE LET key == keys[index]
             nextKey == IF index + 1 <= Len(keys) THEN keys[index + 1]
                        ELSE Undefined
             child == IF key \in DOMAIN current.kids THEN current.kids[key]
                      ELSE IF nextKey # Undefined /\ IsIndex(nextKey)
                      THEN Container("array")
                      ELSE Container("map")
             r == setNestedTarget(child, keys, index + 1, lastKey, value)
         IN  IF r.ok
             THEN [ok |-> TRUE,
                   node |-> [current EXCEPT !.kids = Put(@, key, r.node)]]
             ELSE [ok |-> FALSE, node |-> current]

\* setNestedValue(o, path, value), path as the tuple of its segments (the
\* empty string is <<>>): the object afterwards
setNestedValue(o, path, value) ==
    IF path = <<>> \/ o.kind = "null" THEN o
    ELSE LET keys == SubSeq(path, 1, Len(path) - 1)
             lastKey == path[Len(path)]
         IN  setNestedTarget(o, keys, 1, lastKey, value).node

\* typeof on a node
TypeOf(n) ==
    IF n.kind = "leaf"
    THEN (IF n.val = Undefined THEN "undefined" ELSE "string")
    ELSE "object"

\* o[key]: undefined when o has no such property
Prop(o, key) == IF key \in DOMAIN o.kids THEN o.kids[key] ELSE Leaf(Undefined)

\* deepEqual(a, b) on two values given as trees of nodes that share no
\* object: a === b holds for equal primitives and for null with null
RECURSIVE deepEqualNodes(_, _)
deepEqualNodes(a, b) ==
    IF a.kind \in {"leaf", "null"} /\ a = b THEN TRUE
    ELSE IF a.kind = "null" \/ b.kind = "null" THEN FALSE
    ELSE IF TypeOf(a) = "undefined" \/ TypeOf(b) = "undefined" THEN FALSE
    ELSE IF TypeOf(a) # TypeOf(b) THEN FALSE
    ELSE IF a.kind = "array" /\ b.kind = "array"
    THEN /\ Cardinality(DOMAIN a.kids) = Cardinality(DOMAIN b.kids)
         /\ \A index \in DOMAIN a.kids :
                deepEqualNodes(a.kids[index], Prop(b, index))
    ELSE IF a.kind = "array" \/ b.kind = "array" THEN FALSE
    ELSE IF TypeOf(a) = "object" /\ TypeOf(b) = "object"
    THEN /\ Cardinality(DOMAIN a.kids) = Cardinality(DOMAIN b.kids)
         /\ \A key \in DOMAIN a.kids :
                deepEqualNodes(a.kids[key], Prop(b, key))
    ELSE FALSE

HasWildcard(path) == \E i \in 1..Len(path) : path[i] = "*"

\* parts.indexOf('*'), counted from 1
WildcardIndex(path) ==
    CHOOSE i \in 1..Len(path) :
        path[i] = "*" /\ \A j \in 1..(i - 1) : path[j] # "*"

\* Array.isArray(getNestedValue(values, arrayPath))
IsArrayAt(vals, arrayPath) ==
    /\ Len(arrayPath) = 1
    /\ arrayPath[1] \in DOMAIN vals
    /\ arrayPath[1] \in ArrayFields

\* a map that sends every '*' to the first index
ExpandedPathFirst(path, index) ==
    [i \in 1..Len(path) |-> IF path[i] = "*" THEN IndexStr(0) ELSE path[i]]

\* parts.map(part => (part === '*' ? index.toString() : part))
ExpandedPath(path, index) ==
    [i \in 1..Len(path) |->
        IF path[i] = "*" THEN IndexStr(index) ELSE path[i]]

\* the array.forEach of expandWildcardPaths, from index on
RECURSIVE expandIndices(_, _, _, _, _)
expandIndices(expanded, path, ruleArray, index, length) ==
    IF index >= length THEN expanded
    ELSE expandIndices(
             [p \in (DOMAIN expanded) \cup {ExpandedPath(path, index)} |->
                 IF p = ExpandedPath(path, index) THEN ruleArray
                 ELSE expanded[p]],
             path, ruleArray, index + 1, length)

\* the loop of expandWildcardPaths over the entries todo of rls
RECURSIVE expandEntries(_, _, _, _)
expandEntries(expanded, rls, vals, todo) ==
    IF todo = {} THEN expanded
    ELSE LET path == CHOOSE p \in todo : TRUE
             arrayPath == SubSeq(path, 1, WildcardIndex(path) - 1)
             next ==
                 IF HasWildcard(path)
                 THEN IF IsArrayAt(vals, arrayPath)
                      THEN expandIndices(expanded, path, rls[path], 0,
                                         Len(getNestedValue(vals, arrayPath)))
                      ELSE expanded
                 ELSE [p \in (DOMAIN expanded) \cup {path} |->
                          IF p = path THEN rls[path] ELSE expanded[p]]
         IN  expandEntries(next, rls, vals, todo \ {path})

\* expandWildcardPaths
expandWildcardPaths(rls, vals) == expandEntries(<<>>, rls, vals, DOMAIN rls)

\* deepEqual / deepClone on primitives
deepEqual(a, b) == a = b
deepClone(v) == v

\* resolveValidationResult
resolveValidationResult(result) ==
    IF result = Null \/ result = Undefined \/ result = "" THEN <<>>
    ELSE <<result>>

----------------------------------------------------------------------------
(* The state the ValidationManager works on, as one record, so that the     *)
(* synchronous part of several calls can be composed inside one step.       *)

M ==
    [errors |-> errors, isValidating |-> isValidating,
     validationCache |-> validationCache,
     abortControllers |-> abortControllers, aborted |-> aborted,
     pending |-> pending, nextId |-> nextId, timeoutId |-> timeoutId,
     pendingReject |-> pendingReject, timers |-> timers,
     running |-> running, hist |-> hist]

Apply(m) ==
    /\ errors' = m.errors
    /\ isValidating' = m.isValidating
    /\ validationCache' = m.validationCache
    /\ abortControllers' = m.abortControllers
    /\ aborted' = m.aborted
    /\ pending' = m.pending
    /\ nextId' = m.nextId
    /\ timeoutId' = m.timeoutId
    /\ pendingReject' = m.pendingReject
    /\ timers' = m.timers
    /\ running' = m.running
    /\ hist' = m.hist

----------------------------------------------------------------------------
(* Debounce adapter (one debounced checker, the one inside remote())        *)

\* reject(reason) of the promise of call id; settling a settled promise, or
\* one nobody awaits any more, changes nothing
RejectPromise(m, id, reason) ==
    IF id \in DOMAIN m.pending /\ m.pending[id].p.st = "pending"
    THEN [m EXCEPT !.pending[id].p = [st |-> "rej", res |-> reason,
                                      via |-> @.via]]
    ELSE m

ResolvePromise(m, id, result) ==
    IF id \in DOMAIN m.pending /\ m.pending[id].p.st = "pending"
    THEN [m EXCEPT !.pending[id].p = [st |-> "ok", res |-> result,
                                      via |-> @.via]]
    ELSE m

\* the function debounce() returns, called by invocation id
debounce(m, id) ==
    LET m1 == IF m.pendingReject # 0
              THEN [RejectPromise(m, m.pendingReject, MsgSuperseded)
                        EXCEPT !.pendingReject = 0,
                               !.hist.superseded = @ \cup {m.pendingReject}]
              ELSE m
        m2 == IF m1.timeoutId # 0
              THEN [m1 EXCEPT !.timers = @ \ {m1.timeoutId}]
              ELSE m1
    IN  [m2 EXCEPT !.pendingReject = id, !.timeoutId = id,
                   !.timers = @ \cup {id}, !.hist.lastCall = id]

\* the setTimeout callback up to its await: the checker starts executing
debounceTimerFires(m, id) ==
    [m EXCEPT !.timers = @ \ {id}, !.pendingReject = 0,
              !.running = @ \cup {id}]

\* the rest of the setTimeout callback: the checker settled.  remote() maps
\* the checker's answer to null or its message.
debounceCheckerSettles(m, id, outcome) ==
    LET m1 == CASE outcome = "true" -> ResolvePromise(m, id, Null)
                [] outcome = "false" -> ResolvePromise(m, id, MsgRemote)
                [] outcome = "throws" -> RejectPromise(m, id, MsgFault)
    IN  [m1 EXCEPT !.running = @ \ {id}, !.timeoutId = 0]

----------------------------------------------------------------------------
(* ValidationManager.validateField *)

\* the finally block
validateFieldFinally(m, inv) ==
    IF inv.key \in DOMAIN m.abortControllers
       /\ m.abortControllers[inv.key] = inv.id
    THEN [m EXCEPT !.isValidating = Put(@, inv.key, FALSE),
                   !.abortControllers = Del(@, inv.key)]
    ELSE m

\* the commit after the loop, then finally
validateFieldCommit(m, inv, fieldErrors) ==
    LET m1 == [m EXCEPT
                 !.validationCache =
                     Put(@, inv.key, [value |-> deepClone(inv.value),
                                      errors |-> fieldErrors]),
                 !.errors = Put(@, inv.key, fieldErrors)]
    IN  validateFieldFinally(m1, inv)

\* a catch block that drops the fault
CatchIgnored(m, inv, message) == validateFieldCommit(m, inv, <<>>)

\* the catch block: the message of the error is the field's only message, the
\* loop ends and the result is committed
CatchFault(m, inv, message) == validateFieldCommit(m, inv, <<message>>)

\* the rule returned a thenable: first time, clear errors and raise the flag;
\* then await it
validateFieldAwait(m, inv, i, call, validatingAsync) ==
    LET m1 == IF ~validatingAsync
              THEN [m EXCEPT !.errors = Put(@, inv.key, <<>>),
                             !.isValidating = Put(@, inv.key, TRUE)]
              ELSE m
        m2 == IF call.kind = "debounced" THEN debounce(m1, inv.id) ELSE m1
        p  == CASE call.kind = "resolved" ->
                       [st |-> "ok", res |-> call.res, via |-> "rule"]
                [] call.kind = "custom" ->
                       [st |-> "pending", res |-> Null, via |-> "custom"]
                [] call.kind = "debounced" ->
                       [st |-> "pending", res |-> Null, via |-> "debounce"]
    IN  [m2 EXCEPT !.pending =
            Put(@, inv.id, [id |-> inv.id, key |-> inv.key,
                            value |-> inv.value, chain |-> inv.chain,
                            idx |-> i, p |-> p])]

\* observation: one more execution of the chain of key began since the value
\* of key last changed or its cache entry was last invalidated (and one more
\* execution of a chain began since the first toggleArrayItem call)
ChainStarted(m, key) ==
    [m EXCEPT !.hist.chainRuns = Put(@, key, Get(@, key, 0) + 1),
              !.hist.toggled.runs = IF m.hist.toggled.n > 0 THEN @ + 1 ELSE @]

\* observation: the count starts again for the keys under path
ChainReset(h, path) ==
    [h EXCEPT !.chainRuns =
        [k \in {q \in DOMAIN @ : ~IsPrefix(path, q)} |-> @[k]]]

\* a loop that goes on to the next rule after an error
ChainNeverStops(resolvedErrors) == FALSE

\* if (resolvedErrors.length > 0) { fieldErrors.push(...); break }
ChainStops(resolvedErrors) == resolvedErrors # <<>>

\* the for loop over fieldRules, from rule i on
RECURSIVE validateFieldLoop(_, _, _, _, _)
validateFieldLoop(m, vals, inv, i, validatingAsync) ==
    IF i > Len(inv.chain) THEN validateFieldCommit(m, inv, <<>>)
    ELSE LET call == RuleCall(inv.chain[i], inv.value, vals)
             mc == IF i = 1 THEN ChainStarted(m, inv.key) ELSE m
         IN  IF call.kind = "thrown" THEN CatchFault(mc, inv, call.res)
             ELSE IF call.kind = "sync"
             THEN LET resolvedErrors == resolveValidationResult(call.res)
                  IN  IF ChainStops(resolvedErrors)
                      THEN validateFieldCommit(mc, inv, resolvedErrors)
                      ELSE validateFieldLoop(mc, vals, inv, i + 1,
                                             validatingAsync)
             ELSE validateFieldAwait(mc, inv, i, call, validatingAsync)

\* rules that apply to a path, taken from the cached expansion when there is
\* one
FieldRulesCached(rls, vals, name) ==
    LET expandedRules == IF expandedRulesCache.valid
                         THEN expandedRulesCache.rules
                         ELSE expandWildcardPaths(rls, vals)
    IN  IF name \in DOMAIN expandedRules THEN expandedRules[name]
        ELSE IF name \in DOMAIN rls THEN rls[name]
        ELSE <<>>

\* rules that apply to a path: the fresh expansion, else the rule collection
FieldRules(rls, vals, name) ==
    LET expandedRules == expandWildcardPaths(rls, vals)
    IN  IF name \in DOMAIN expandedRules THEN expandedRules[name]
        ELSE IF name \in DOMAIN rls THEN rls[name]
        ELSE <<>>

CurrentValue(vals, name) ==
    IF Len(name) > 1 THEN getNestedValue(vals, name)
    ELSE FormValue(vals, name[1])

\* a cache check that never finds an entry
CacheNeverHit(m, name, currentValue) == FALSE

\* a cache entry that holds the value itself instead of a clone: compared
\* with what it has become, it is always equal
CacheHitLive(m, name, currentValue) == name \in DOMAIN m.validationCache

\* the cache check
CacheHit(m, name, currentValue) ==
    /\ name \in DOMAIN m.validationCache
    /\ deepEqual(m.validationCache[name].value, currentValue)

\* a no-rule branch that leaves the stored errors alone
validateFieldNoRulesKeep(m, name) ==
    [m EXCEPT !.abortControllers = Del(@, name),
              !.hist.noRule = [n |-> @.n + 1, path |-> name,
                               held |-> ErrorsOf(m.errors, name)]]

\* if (!fieldRules.length): the stored errors become [] and the call returns
\* [] (observation: the path and the errors it held)
validateFieldNoRules(m, name) ==
    [m EXCEPT !.errors = Put(@, name, <<>>),
              !.abortControllers = Del(@, name),
              !.hist.noRule = [n |-> @.n + 1, path |-> name,
                               held |-> ErrorsOf(m.errors, name)]]

\* validateField(name) up to its first await or its return
validateField(m, vals, rls, name) ==
    LET id == m.nextId
        m1 == IF name \in DOMAIN m.abortControllers
              THEN [m EXCEPT !.aborted = @ \cup {m.abortControllers[name]}]
              ELSE m
        m2 == [m1 EXCEPT !.abortControllers = Put(@, name, id),
                         !.nextId = id + 1]
        fieldRules == FieldRules(rls, vals, name)
        currentValue == CurrentValue(vals, name)
        inv == [id |-> id, key |-> name, value |-> currentValue,
                chain |-> fieldRules]
    IN  IF fieldRules = <<>>
        THEN validateFieldNoRules(m2, name)
        ELSE IF CacheHit(m2, name, currentValue)
        THEN [m2 EXCEPT
                !.errors = Put(@, name, m2.validationCache[name].errors),
                !.abortControllers = Del(@, name)]
        ELSE validateFieldLoop(m2, vals, inv, 1, FALSE)

\* a signal that never reports the abort
SignalNeverAborted(m, id) == FALSE

\* abortController.signal.aborted, read after the await
SignalAborted(m, id) == id \in m.aborted

\* currentValue after an await: an array is held by reference, so what was
\* pushed to it or spliced from it in the meantime shows; a string is held by
\* value
LiveValue(vals, inv) ==
    IF Len(inv.key) = 1 /\ inv.key[1] \in ArrayFields
       /\ inv.key[1] \in DOMAIN vals
    THEN vals[inv.key[1]]
    ELSE inv.value

\* validateField from the await of invocation id on, once its promise settled
validateFieldResume(m, vals, id) ==
    LET inv == [m.pending[id] EXCEPT !.value = LiveValue(vals, m.pending[id])]
        m1 == [m EXCEPT !.pending = Del(@, id)]
    IN  IF inv.p.st = "rej"
        THEN CatchFault(m1, inv, inv.p.res)
        ELSE IF SignalAborted(m1, id)
        THEN validateFieldFinally([m1 EXCEPT !.hist.discarded = TRUE], inv)
        ELSE LET resolvedErrors == resolveValidationResult(inv.p.res)
             IN  IF ChainStops(resolvedErrors)
                 THEN validateFieldCommit(m1, inv, resolvedErrors)
                 ELSE validateFieldLoop(m1, vals, inv, inv.idx + 1, TRUE)

\* clearCache(fieldKey): the entry and every entry nested under it
\* a clearCache that deletes the entry of fieldKey alone
clearCacheExact(m, fieldKey) ==
    [m EXCEPT !.validationCache =
                  [k \in (DOMAIN @) \ {fieldKey} |-> @[k]],
              !.hist = ChainReset(@, fieldKey)]

clearCache(m, fieldKey) ==
    [m EXCEPT !.validationCache =
                  [k \in {q \in DOMAIN @ : ~IsPrefix(fieldKey, q)} |-> @[k]],
              !.hist = ChainReset(@, fieldKey)]

\* clearCache()
clearCacheAll(m) == [m EXCEPT !.validationCache = <<>>]

\* a clearStaleErrors that deletes nothing
clearStaleErrorsNone(m, r, expandedRules) == m

\* clearStaleErrors(): the errors whose key is neither a rule path nor a path
\* of the expansion are deleted
clearStaleErrors(m, r, expandedRules) ==
    LET activeFields == (DOMAIN r) \cup (DOMAIN expandedRules)
    IN  [m EXCEPT !.errors = [k \in (DOMAIN @) \cap activeFields |-> @[k]]]

\* clearArrayCache(arrayPath) but for the expanded rules cache: the cache
\* entries under arrayPath go, with the errors and the controllers of their
\* keys
clearArrayCache(m, arrayPath) ==
    LET keysToDelete == {k \in DOMAIN m.validationCache :
                            IsPrefix(arrayPath, k) /\ k # arrayPath}
        controllers == keysToDelete \cap DOMAIN m.abortControllers
    IN  [m EXCEPT
           !.validationCache = [k \in (DOMAIN @) \ keysToDelete |-> @[k]],
           !.errors = [k \in (DOMAIN @) \ keysToDelete |-> @[k]],
           !.aborted = @ \cup {m.abortControllers[k] : k \in controllers},
           !.abortControllers = [k \in (DOMAIN @) \ controllers |-> @[k]],
           !.hist = ChainReset(@, arrayPath)]

\* ValidationManager.dispose(): every controller is aborted, the controller
\* map is emptied and the whole validation cache is cleared
dispose(m) ==
    clearCacheAll([m EXCEPT
        !.aborted = @ \cup {m.abortControllers[k] :
                                k \in DOMAIN m.abortControllers},
        !.abortControllers = <<>>])

----------------------------------------------------------------------------
(* Dependency graph *)

\* some fixed order of a finite set (Object.keys order)
RECURSIVE SetToSeq(_)
SetToSeq(S) ==
    IF S = {} THEN <<>>
    ELSE LET x == CHOOSE y \in S : TRUE
         IN  <<x>> \o SetToSeq(S \ {x})

\* the paths the rules of a chain declare in __crossField.dependsOn
DependsOn(chain) ==
    UNION {CrossFieldDependsOn(chain[i]) : i \in 1..Len(chain)}

\* a buildDependencies that also lists what a dependency depends on
buildDependenciesTwoHops(rls) ==
    [f \in {g \in DOMAIN rls : DependsOn(rls[g]) # {}} |->
        DependsOn(rls[f])
            \cup UNION {DependsOn(rls[d]) :
                           d \in DependsOn(rls[f]) \cap DOMAIN rls}]

\* buildDependencies(): one entry for every rule path whose chain has a
\* cross-field rule
buildDependencies(rls) ==
    [f \in {g \in DOMAIN rls : DependsOn(rls[g]) # {}} |-> DependsOn(rls[f])]

\* getDependentFields: the fields of the entries whose dependsOn lists
\* changedField
getDependentFields(deps, changedField) ==
    {f \in DOMAIN deps : changedField \in deps[f]}

----------------------------------------------------------------------------
(* ValidationManager.validateForm *)

\* allFields.map(field => this.validateField(field)): the calls are made one
\* after the other; ids collects the invocations that suspended
RECURSIVE validateFormFields(_, _, _, _, _)
validateFormFields(m, vals, rls, todo, ids) ==
    IF todo = <<>> THEN [m |-> m, ids |-> ids]
    ELSE LET id == m.nextId
             m1 == validateField(m, vals, rls, Head(todo))
         IN  validateFormFields(m1, vals, rls, Tail(todo),
                                IF id \in DOMAIN m1.pending
                                THEN ids \cup {id} ELSE ids)

\* validateForm up to its await Promise.all(...)
validateForm(m, vals, rls) ==
    LET expandedRules == expandWildcardPaths(rls, vals)
        allFields == DOMAIN expandedRules
        r == validateFormFields(m, vals, rls, SetToSeq(allFields), {})
    IN  [m |-> r.m, ids |-> r.ids, fields |-> allFields,
         expanded |-> [valid |-> TRUE, rules |-> expandedRules]]

\* a validateForm that drops no stored error
validateFormNoSweep(errs, rls, allFields) == errs

\* after the await: drop the nested-path errors outside the active fields
validateFormSweep(errs, rls, allFields) ==
    [k \in {q \in DOMAIN errs :
               ~(Len(q) > 1 /\ q \notin (DOMAIN rls) \cup allFields)}
        |-> errs[k]]

\* the value validateForm returns
validateFormResult(errs) == \A k \in DOMAIN errs : errs[k] = <<>>

----------------------------------------------------------------------------
(* FormStateManager *)

\* isConditionallyInactive: call each cross-field rule with '' and look at
\* what it returns
RECURSIVE InactiveFrom(_, _, _)
InactiveFrom(chain, i, vals) ==
    IF i > Len(chain) THEN FALSE
    ELSE IF CrossFieldDependsOn(chain[i]) = {}
    THEN InactiveFrom(chain, i + 1, vals)
    ELSE LET result == RuleCall(chain[i], "", vals)
         IN  IF result.kind = "sync" /\ result.res = Null THEN TRUE
             ELSE IF result.kind # "sync" THEN FALSE
             ELSE InactiveFrom(chain, i + 1, vals)

isConditionallyInactive(srules, vals, fieldKey) ==
    IF fieldKey \notin DOMAIN srules THEN FALSE
    ELSE InactiveFrom(srules[fieldKey], 1, vals)

\* the isValid computed
isValid(srules, vals, errs, validating) ==
    IF \E k \in DOMAIN validating : validating[k] THEN FALSE
    ELSE \A fieldKey \in DOMAIN errs :
            \/ isConditionallyInactive(srules, vals, fieldKey)
            \/ errs[fieldKey] = <<>>

\* the hasAnyErrors computed
hasAnyErrors(errs) == \E k \in DOMAIN errs : errs[k] # <<>>

\* getEmptyValue of a string field
getEmptyValue(initialValue) == ""

----------------------------------------------------------------------------
(* Field watchers (useFieldWatchers).  A watcher callback is an async       *)
(* function: it runs up to an await and is resumed later.  A suspended      *)
(* callback is a task [field, pc, id, todo].                                *)

NoTask == [field |-> "", pc |-> "done", id |-> 0, todo |-> <<>>]

\* validateDependentFields from the dependents in todo on: skip the untouched
\* ones; for the first touched one drop its cache entry and await nextTick
RECURSIVE validateDependentFields(_, _, _, _)
validateDependentFields(m, tch, f, todo) ==
    IF todo = <<>> THEN [m |-> m, task |-> NoTask]
    ELSE IF Get(tch, Head(todo), FALSE)
    THEN [m |-> [m EXCEPT !.validationCache = Del(@, Head(todo)),
                          !.hist.chainRuns = Del(@, Head(todo))],
          task |-> [field |-> f, pc |-> "depTick", id |-> 0, todo |-> todo]]
    ELSE validateDependentFields(m, tch, f, Tail(todo))

\* the loop over the touched nested fields, then validateDependentFields
watchNested(m, vals, rls, tch, f, todo) ==
    IF todo = <<>>
    THEN validateDependentFields(m, tch, f,
                                 SetToSeq(getDependentFields(fieldDependencies,
                                                            <<f>>)))
    ELSE [m |-> validateField(m, vals, rls, Head(todo)),
          task |-> [field |-> f, pc |-> "nestedWait", id |-> m.nextId,
                    todo |-> Tail(todo)]]

touchedNestedFields(tch, f) ==
    SetToSeq({t \in DOMAIN tch : Len(t) > 1 /\ t[1] = f /\ tch[t]})

\* a watcher that takes every field for touched
FieldAlwaysTouched(tch, f) == TRUE

\* stateManager.touched[key] as the watcher callback reads it
FieldTouched(tch, f) == Get(tch, <<f>>, FALSE)

\* the watcher callback up to its first await
watchCallback(m, vals, rls, tch, f, newValue, oldValue) ==
    IF f \notin ArrayFields /\ newValue = oldValue
    THEN [m |-> m, task |-> NoTask]
    ELSE LET m1 == clearCache(m, <<f>>)
         IN  IF FieldTouched(tch, f)
             THEN [m |-> m1,
                   task |-> [field |-> f, pc |-> "selfTick", id |-> 0,
                             todo |-> <<>>]]
             ELSE watchNested(m1, vals, rls, tch, f,
                              touchedNestedFields(tch, f))

\* a suspended watcher callback from its await on
watchResume(m, vals, rls, tch, t) ==
    CASE t.pc = "selfTick" ->
            [m |-> validateField(m, vals, rls, <<t.field>>),
             task |-> [t EXCEPT !.pc = "selfWait", !.id = m.nextId]]
      [] t.pc = "selfWait" ->
            watchNested(m, vals, rls, tch, t.field,
                        touchedNestedFields(tch, t.field))
      [] t.pc = "nestedWait" ->
            watchNested(m, vals, rls, tch, t.field, t.todo)
      [] t.pc = "depTick" ->
            [m |-> validateField(m, vals, rls, Head(t.todo)),
             task |-> [t EXCEPT !.pc = "depWait", !.id = m.nextId,
                                !.todo = Tail(t.todo)]]
      [] t.pc = "depWait" ->
            validateDependentFields(m, tch, t.field, t.todo)

\* a callback that goes on without waiting for the promise it awaits
TaskAlwaysReady(t) == TRUE

\* the task can take its next step
TaskReady(t) ==
    CASE t.pc \in {"selfTick", "depTick"} -> TRUE
      [] t.pc \in {"selfWait", "nestedWait", "depWait"} ->
            t.id \notin DOMAIN pending

RemoveAt(seq, i) == SubSeq(seq, 1, i - 1) \o SubSeq(seq, i + 1, Len(seq))

----------------------------------------------------------------------------
(* Initial states: the form right after createForm and setRules *)

\* expandedRulesCache is null
NoExpansion == [valid |-> FALSE, rules |-> <<>>]

\* no validateForm call is in progress
NoForm == [active |-> FALSE, ids |-> {}, fields |-> {}, vals |-> <<>>,
           ops |-> 0, bySubmit |-> FALSE]

\* An array of initialValues that is the very object values holds is
\* [shared |-> TRUE]: its elements are those of the array in values.
Own(v) == [shared |-> FALSE, value |-> v]
Shared == [shared |-> TRUE, value |-> <<>>]

\* the constructor of FormStateManager: initialValues and values are two
\* shallow copies of options.initialValues, so they hold the same arrays
constructor(vals) ==
    [f \in DOMAIN vals |-> IF f \in ArrayFields THEN Shared ELSE Own(vals[f])]

\* this.initialValues[k]
InitialValue(init, vals, k) ==
    IF init[k].shared THEN vals[k] ELSE init[k].value

InitState(vals, rls, o) ==
    /\ values = vals
    /\ obj = o
    /\ rules = rls
    /\ stateRules = rls
    /\ fieldDependencies = buildDependencies(rls)
    /\ initialValues = constructor(vals)
    /\ expandedRulesCache = NoExpansion
    /\ errors = <<>>
    /\ touched = <<>>
    /\ isValidating = <<>>
    /\ validationCache = <<>>
    /\ abortControllers = <<>>
    /\ aborted = {}
    /\ pending = <<>>
    /\ nextId = 1
    /\ timeoutId = 0
    /\ pendingReject = 0
    /\ timers = {}
    /\ running = {}
    /\ watchQueued = [f \in DOMAIN vals |-> FALSE]
    /\ watchOld = vals
    /\ tasks = <<>>
    /\ formCall = NoForm
    /\ isSubmitting = FALSE
    /\ submitPc = "idle"
    /\ hist = [ops |-> 0, chainRuns |-> <<>>, discarded |-> FALSE,
               onSubmit |-> 0, skipped |-> 0, superseded |-> {}, lastCall |-> 0,
               cleared |-> {}, toggled |-> [n |-> 0, runs |-> 0],
               resets |-> 0, initial |-> vals,
               sets |-> 0, setPath |-> <<>>,
               formResult |-> "none",
               equal |-> [n |-> 0, ab |-> FALSE, ba |-> FALSE],
               noRule |-> [n |-> 0, path |-> <<>>, held |-> <<>>],
               removal |-> [index |-> -1, erred |-> {}]]

\* a form, with no object for setNestedValue
InitWith(vals, rls) == InitState(vals, rls, NullNode)

\* the values a test may assign to a field
FieldValues(f) ==
    CASE f = "type" -> {"personal", "business"}
      [] f = "code" -> {"", "secret"}
      [] f = "username" -> {"", "abc", "xyz"}
      [] f = "name" -> {"Alice", "Bob"}
      [] f = "password" -> {"abc", "xyz"}
      [] f = "company" -> {"", "Acme"}
      [] OTHER -> {"", "abc"}

Keys == {<<f>> : f \in DOMAIN values}

----------------------------------------------------------------------------
(* Steps *)

\* one more call made by the application (a count that bounds the model)
Op(h) == [h EXCEPT !.ops = @ + 1]
MOp == [M EXCEPT !.hist = Op(@)]

formVars == <<formCall, isSubmitting, submitPc>>
watchVars == <<watchQueued, watchOld, tasks>>
ruleVars == <<rules, stateRules, fieldDependencies, expandedRulesCache,
              initialValues, obj>>

\* form.val.f = v: the reactive setter queues the field's watcher
SetValue(f, v) ==
    /\ hist.ops < MaxOps
    /\ v # values[f]
    /\ values' = [values EXCEPT ![f] = v]
    /\ watchQueued' = IF f \in DOMAIN watchQueued
                      THEN [watchQueued EXCEPT ![f] = TRUE]
                      ELSE watchQueued
    /\ hist' = Op(ChainReset(hist, <<f>>))
    /\ UNCHANGED <<ruleVars, errors, touched, isValidating,
                   validationCache, abortControllers, aborted, pending,
                   nextId, timeoutId, pendingReject, timers, running,
                   watchOld, tasks, formVars>>

\* the post flush runs the watcher job of field f
WatcherRuns(f) ==
    /\ f \in DOMAIN watchQueued
    /\ watchQueued[f]
    /\ Len(tasks) < MaxTasks
    /\ LET r == watchCallback(M, values, rules, touched, f, values[f],
                              watchOld[f])
       IN  /\ Apply(r.m)
           /\ tasks' = IF r.task = NoTask THEN tasks
                       ELSE Append(tasks, r.task)
    /\ watchQueued' = [watchQueued EXCEPT ![f] = FALSE]
    /\ watchOld' = [watchOld EXCEPT ![f] = values[f]]
    /\ UNCHANGED <<values, ruleVars, touched, formVars>>

\* a suspended watcher callback goes on to its next await or its end
WatcherResumes(i) ==
    /\ TaskReady(tasks[i])
    /\ LET r == watchResume(M, values, rules, touched, tasks[i])
       IN  /\ Apply(r.m)
           /\ tasks' = IF r.task = NoTask THEN RemoveAt(tasks, i)
                       ELSE [tasks EXCEPT ![i] = r.task]
    /\ UNCHANGED <<values, ruleVars, touched, watchQueued, watchOld, formVars>>

\* form.validateField(name), called by the application
ValidateField(name) ==
    /\ hist.ops < MaxOps
    /\ Apply(validateField(MOp, values, rules, name))
    /\ UNCHANGED <<values, ruleVars, touched, watchVars, formVars>>

\* form.touch(name)
Touch(name) ==
    /\ hist.ops < MaxOps
    /\ touched' = Put(touched, name, TRUE)
    /\ Apply(validateField(MOp, values, rules, name))
    /\ UNCHANGED <<values, ruleVars, watchVars, formVars>>

\* the await in validateField returns: the promise has settled
Resume(id) ==
    /\ pending[id].p.st # "pending"
    /\ Apply(validateFieldResume(M, values, id))
    /\ UNCHANGED <<values, ruleVars, touched, watchVars, formVars>>

\* the promise of a custom() validator settles
CustomSettles(id, outcome) ==
    /\ pending[id].p.st = "pending"
    /\ pending[id].p.via = "custom"
    /\ Apply(CASE outcome = "true" -> ResolvePromise(M, id, Null)
               [] outcome = "false" -> ResolvePromise(M, id, MsgCustom)
               [] outcome = "throws" -> RejectPromise(M, id, MsgFault))
    /\ UNCHANGED <<values, ruleVars, touched, watchVars, formVars>>

\* the microtask queue is empty: no settled await, queued watcher job,
\* resumable watcher callback or resumable validateForm / submit is left
MicrotasksDrained ==
    /\ \A id \in DOMAIN pending : pending[id].p.st = "pending"
    /\ \A f \in DOMAIN watchQueued : ~watchQueued[f]
    /\ \A i \in 1..Len(tasks) :
          tasks[i].pc \in {"selfWait", "nestedWait", "depWait"}
          /\ tasks[i].id \in DOMAIN pending
    /\ ~(formCall.active /\ formCall.ids \cap DOMAIN pending = {})
    /\ submitPc # "tick"

\* a debounce timer fires: a macrotask, run when no microtask is left
TimerFires(id) ==
    /\ MicrotasksDrained
    /\ Apply(debounceTimerFires(M, id))
    /\ UNCHANGED <<values, ruleVars, touched, watchVars, formVars>>

\* the checker called by the debounce adapter settles
CheckerSettles(id, outcome) ==
    /\ Apply(debounceCheckerSettles(M, id, outcome))
    /\ UNCHANGED <<values, ruleVars, touched, watchVars, formVars>>

\* form.clearCache(path)
ClearCache(path) ==
    /\ hist.ops < MaxOps
    /\ Apply(clearCache(MOp, path))
    /\ UNCHANGED <<values, ruleVars, touched, watchVars, formVars>>

\* form.clearCache()
ClearCacheAll ==
    /\ hist.ops < MaxOps
    /\ Apply(clearCacheAll(MOp))
    /\ UNCHANGED <<values, ruleVars, touched, watchVars, formVars>>

Outcomes == {"true", "false", "throws"}

\* form.clear(): every field back to its empty value, its state reset
Clear ==
    /\ hist.ops < MaxOps
    /\ values' = [k \in DOMAIN values |-> getEmptyValue(values[k])]
    /\ errors' = [k \in (DOMAIN errors) \cup Keys |->
                    IF k \in Keys THEN <<>> ELSE errors[k]]
    /\ touched' = [k \in (DOMAIN touched) \cup Keys |->
                    IF k \in Keys THEN FALSE ELSE touched[k]]
    /\ isValidating' = [k \in (DOMAIN isValidating) \cup Keys |->
                    IF k \in Keys THEN FALSE ELSE isValidating[k]]
    /\ watchQueued' = [k \in DOMAIN values |->
                    watchQueued[k] \/ values[k] # getEmptyValue(values[k])]
    /\ hist' = Op([hist EXCEPT !.chainRuns = <<>>,
                                !.cleared = DOMAIN pending])
    /\ UNCHANGED <<ruleVars, validationCache, abortControllers, aborted,
                   pending, nextId, timeoutId, pendingReject, timers, running,
                   watchOld, tasks, formVars>>

\* form.addArrayItem(f, item): push, then clearArrayCache
AddArrayItem(f, item) ==
    /\ hist.ops < MaxOps
    /\ Len(values[f]) < MaxLen
    /\ values' = [values EXCEPT ![f] = Append(@, item)]
    /\ Apply(clearArrayCache(MOp, <<f>>))
    /\ expandedRulesCache' = NoExpansion
    /\ watchQueued' = [watchQueued EXCEPT ![f] = TRUE]
    /\ UNCHANGED <<rules, stateRules, fieldDependencies, initialValues, obj, touched, watchOld,
                   tasks, formVars>>

\* form.removeArrayItem(f, index): splice(index, 1), then clearArrayCache
\* (observation: the index and the paths that held errors)
RemoveArrayItem(f, index) ==
    /\ hist.ops < MaxOps
    /\ index < Len(values[f])
    /\ values' = [values EXCEPT ![f] = RemoveAt(@, index + 1)]
    /\ Apply(clearArrayCache(
                 [MOp EXCEPT !.hist.removal =
                     [index |-> index,
                      erred |-> {k \in DOMAIN errors : errors[k] # <<>>}]],
                 <<f>>))
    /\ expandedRulesCache' = NoExpansion
    /\ watchQueued' = [watchQueued EXCEPT ![f] = TRUE]
    /\ UNCHANGED <<rules, stateRules, fieldDependencies, initialValues, obj, touched, watchOld,
                   tasks, formVars>>

\* a toggleArrayItem that validates the field as touch() would and then
\* once more
toggleValidateTwice(m, vals, rls, f) ==
    validateField(clearCache(validateField(m, vals, rls, <<f>>), <<f>>),
                  vals, rls, <<f>>)

\* the end of toggleArrayItem: clearCache(field), then validateField(field)
toggleValidate(m, vals, rls, f) ==
    validateField(clearCache(m, <<f>>), vals, rls, <<f>>)

\* array.findIndex(element => Object.is(element, item)), from 0; -1 if absent
findIndex(array, item) ==
    IF \E i \in 1..Len(array) : array[i] = item
    THEN (CHOOSE i \in 1..Len(array) :
              array[i] = item /\ \A j \in 1..(i - 1) : array[j] # item) - 1
    ELSE -1

\* form.toggleArrayItem(f, item) on an array field: removeArrayItem or
\* addArrayItem (each with its clearArrayCache), the field is touched, its
\* cache entry is dropped and it is validated
ToggleArrayItem(f, item) ==
    /\ hist.ops < MaxOps
    /\ f \in ArrayFields
    /\ LET index == findIndex(values[f], item)
           vals == IF index >= 0
                   THEN [values EXCEPT ![f] = RemoveAt(@, index + 1)]
                   ELSE [values EXCEPT ![f] = Append(@, item)]
           m1 == clearArrayCache([MOp EXCEPT !.hist.toggled.n = @ + 1], <<f>>)
       IN  /\ index < 0 => Len(values[f]) < MaxLen
           /\ values' = vals
           /\ Apply(toggleValidate(m1, vals, rules, f))
    /\ expandedRulesCache' = NoExpansion
    /\ touched' = Put(touched, <<f>>, TRUE)
    /\ watchQueued' = [watchQueued EXCEPT ![f] = TRUE]
    /\ UNCHANGED <<rules, stateRules, fieldDependencies, initialValues, obj, watchOld, tasks,
                   formVars>>

\* form.val[f].push(item): the array is changed through the reactive values,
\* with no call to the validation manager
PushItem(f, item) ==
    /\ hist.ops < MaxOps
    /\ Len(values[f]) < MaxLen
    /\ values' = [values EXCEPT ![f] = Append(@, item)]
    /\ watchQueued' = [watchQueued EXCEPT ![f] = TRUE]
    /\ hist' = Op(hist)
    /\ UNCHANGED <<ruleVars, errors, touched, isValidating, validationCache,
                   abortControllers, aborted, pending, nextId, timeoutId,
                   pendingReject, timers, running, watchOld, tasks, formVars>>

\* form.val[f].splice(index, 1), likewise
SpliceItem(f, index) ==
    /\ hist.ops < MaxOps
    /\ index < Len(values[f])
    /\ values' = [values EXCEPT ![f] = RemoveAt(@, index + 1)]
    /\ watchQueued' = [watchQueued EXCEPT ![f] = TRUE]
    /\ hist' = Op(hist)
    /\ UNCHANGED <<ruleVars, errors, touched, isValidating, validationCache,
                   abortControllers, aborted, pending, nextId, timeoutId,
                   pendingReject, timers, running, watchOld, tasks, formVars>>

\* form.setRules(r) with a normalized collection r other than the current
\* one: both managers take the rules, the dependencies are rebuilt (they are
\* computed from rules), the expansion is refreshed and stale errors go
SetRules(r) ==
    /\ hist.ops < MaxOps
    /\ r # rules
    /\ rules' = r
    /\ stateRules' = r
    /\ fieldDependencies' = buildDependencies(r)
    /\ UNCHANGED <<initialValues, obj>>
    /\ LET expandedRules == expandWildcardPaths(r, values)
       IN  /\ expandedRulesCache' = [valid |-> TRUE, rules |-> expandedRules]
           /\ Apply(clearStaleErrors(MOp, r, expandedRules))
    /\ UNCHANGED <<values, touched, watchVars, formVars>>

\* touched[key] = true for every key of values
TouchAll(tch) ==
    [k \in (DOMAIN tch) \cup Keys |-> IF k \in Keys THEN TRUE ELSE tch[k]]

\* form.setErrors({[key]: errorList}): a non-empty list is stored and the key
\* is marked as touched; an empty list changes nothing
SetErrors(key, errorList) ==
    /\ hist.ops < MaxOps
    /\ errors' = IF errorList # <<>> THEN Put(errors, key, errorList)
                 ELSE errors
    /\ touched' = IF errorList # <<>> THEN Put(touched, key, TRUE)
                  ELSE touched
    /\ hist' = Op(hist)
    /\ UNCHANGED <<values, ruleVars, isValidating, validationCache,
                   abortControllers, aborted, pending, nextId, timeoutId,
                   pendingReject, timers, running, watchVars, formVars>>

\* form.validateForm(), called by the application (one call at a time)
ValidateForm ==
    /\ hist.ops < MaxOps
    /\ ~formCall.active
    /\ touched' = TouchAll(touched)
    /\ LET r == validateForm(MOp, values, rules)
       IN  /\ Apply(r.m)
           /\ expandedRulesCache' = r.expanded
           /\ formCall' = [active |-> TRUE, ids |-> r.ids,
                           fields |-> r.fields, vals |-> values,
                           ops |-> r.m.hist.ops,
                           bySubmit |-> FALSE]
    /\ UNCHANGED <<values, rules, stateRules, fieldDependencies, initialValues, obj, watchVars, isSubmitting,
                   submitPc>>

\* the loop of reset(): values[k] = initialValues[k] for every key
resetValues(init, vals) ==
    [k \in DOMAIN vals |-> InitialValue(init, vals, k)]

\* form.reset(newValues) for newValues of one field, or none (fields = {}):
\* initialValues takes the new value; then every field gets its initial
\* value back and its errors, touched and validating state are reset.  An
\* array assigned from initialValues is from then on the same object in both.
\* A field whose value changes gets its watcher job queued.
\* (observation: the values given at construction or to reset)
Reset(fields, v) ==
    /\ hist.ops < MaxOps
    /\ LET init == [k \in DOMAIN initialValues |->
                       IF k \in fields THEN Own(v) ELSE initialValues[k]]
           given == [k \in DOMAIN values |->
                       IF k \in fields THEN v ELSE hist.initial[k]]
           vals == resetValues(init, values)
       IN  /\ values' = vals
           /\ initialValues' =
                 [k \in DOMAIN init |->
                     IF k \in ArrayFields THEN Shared ELSE init[k]]
           /\ watchQueued' =
                 [k \in DOMAIN watchQueued |->
                     watchQueued[k]
                       \/ IF k \in ArrayFields THEN ~init[k].shared
                          ELSE vals[k] # values[k]]
           /\ hist' = [Op(hist) EXCEPT !.resets = @ + 1, !.initial = given]
    /\ errors' = [k \in (DOMAIN errors) \cup Keys |->
                    IF k \in Keys THEN <<>> ELSE errors[k]]
    /\ touched' = [k \in (DOMAIN touched) \cup Keys |->
                    IF k \in Keys THEN FALSE ELSE touched[k]]
    /\ isValidating' = [k \in (DOMAIN isValidating) \cup Keys |->
                    IF k \in Keys THEN FALSE ELSE isValidating[k]]
    /\ UNCHANGED <<rules, stateRules, fieldDependencies, expandedRulesCache, obj,
                   validationCache, abortControllers, aborted, pending,
                   nextId, timeoutId, pendingReject, timers, running,
                   watchOld, tasks, formVars>>

\* the application calls setNestedValue(obj, path, value)
\* (observation: the path)
SetNestedValue(path, value) ==
    /\ hist.ops < MaxOps
    /\ obj' = setNestedValue(obj, path, value)
    /\ hist' = [Op(hist) EXCEPT !.sets = @ + 1, !.setPath = path]
    /\ UNCHANGED <<values, rules, stateRules, fieldDependencies, initialValues,
                   expandedRulesCache, errors, touched, isValidating,
                   validationCache, abortControllers, aborted, pending,
                   nextId, timeoutId, pendingReject, timers, running,
                   watchVars, formVars>>

\* form.dispose(): the watchers are stopped (a stopped watcher has no job,
\* queued or future) and the validation manager is disposed
Dispose ==
    /\ hist.ops < MaxOps
    /\ watchQueued' = [f \in {} |-> FALSE]
    /\ Apply(dispose(MOp))
    /\ UNCHANGED <<values, ruleVars, touched, watchOld, tasks, formVars>>

\* submit() never sees a submit in progress
SubmitNeverInProgress == FALSE

\* the guard of submit(): a submit is still in progress
SubmitInProgress == isSubmitting

\* form.submit(): returns at once while a submit is in progress; else raises
\* isSubmitting and awaits validateForm()
Submit ==
    /\ hist.ops < MaxOps
    /\ IF SubmitInProgress
       THEN /\ hist' = [Op(hist) EXCEPT !.skipped = @ + 1]
            /\ UNCHANGED <<values, ruleVars, errors, touched, isValidating,
                           validationCache, abortControllers, aborted,
                           pending, nextId, timeoutId, pendingReject, timers,
                           running, watchVars, formVars>>
       ELSE /\ ~formCall.active
            /\ isSubmitting' = TRUE
            /\ submitPc' = "validating"
            /\ touched' = TouchAll(touched)
            /\ LET r == validateForm(MOp, values, rules)
               IN  /\ Apply(r.m)
                   /\ expandedRulesCache' = r.expanded
                   /\ formCall' = [active |-> TRUE, ids |-> r.ids,
                                   fields |-> r.fields, vals |-> values,
                                   ops |-> r.m.hist.ops,
                                   bySubmit |-> TRUE]
            /\ UNCHANGED <<values, rules, stateRules, fieldDependencies, initialValues, obj, watchVars>>

\* every promise validateForm awaits has settled
FormReady == formCall.active /\ formCall.ids \cap DOMAIN pending = {}

\* validateForm after its await: the sweep and the result; submit() goes on
\* to await nextTick() when the result is true, else to its finally block
FormJoin ==
    /\ FormReady
    /\ LET errs == validateFormSweep(errors, rules, formCall.fields)
       IN  /\ errors' = errs
           /\ IF ~formCall.bySubmit
              THEN UNCHANGED <<isSubmitting, submitPc>>
              ELSE IF validateFormResult(errs)
              THEN submitPc' = "tick" /\ UNCHANGED isSubmitting
              ELSE submitPc' = "idle" /\ isSubmitting' = FALSE
           /\ hist' = [hist EXCEPT !.formResult =
                          IF validateFormResult(errs) THEN "true" ELSE "false"]
    /\ formCall' = NoForm
    /\ UNCHANGED <<values, ruleVars, touched, isValidating, validationCache,
                   abortControllers, aborted, pending, nextId, timeoutId,
                   pendingReject, timers, running, watchVars>>

\* submit() after await nextTick(): onSubmit(getValues()) is invoked
SubmitTick ==
    /\ submitPc = "tick"
    /\ submitPc' = "onSubmit"
    /\ hist' = [hist EXCEPT !.onSubmit = @ + 1]
    /\ UNCHANGED <<values, ruleVars, errors, touched, isValidating,
                   validationCache, abortControllers, aborted, pending,
                   nextId, timeoutId, pendingReject, timers, running,
                   watchVars, formCall, isSubmitting>>

\* the promise of onSubmit settles, fulfilled or rejected: the finally block
\* of submit() runs either way
OnSubmitSettles ==
    /\ submitPc = "onSubmit"
    /\ submitPc' = "idle"
    /\ isSubmitting' = FALSE
    /\ UNCHANGED <<values, ruleVars, errors, touched, isValidating,
                   validationCache, abortControllers, aborted, pending,
                   nextId, timeoutId, pendingReject, timers, running,
                   watchVars, formCall, hist>>


----------------------------------------------------------------------------
(* Specification Spec: a form with one field whose chain has a plain rule,  *)
(* a debounced remote check and a custom asynchronous validator, driven by  *)
(* the application and the environment                                      *)

RulesAsync == <<"username">> :> <<"required", "remote", "customAsync">>

Init == InitWith([username |-> ""], RulesAsync)

Next ==
    \/ \E f \in DOMAIN values : \E v \in FieldValues(f) : SetValue(f, v)
    \/ \E f \in DOMAIN values : WatcherRuns(f)
    \/ \E i \in 1..Len(tasks) : WatcherResumes(i)
    \/ \E name \in Keys : ValidateField(name)
    \/ \E name \in Keys : Touch(name)
    \/ \E id \in DOMAIN pending : Resume(id)
    \/ \E id \in DOMAIN pending : \E o \in Outcomes : CustomSettles(id, o)
    \/ \E id \in timers : TimerFires(id)
    \/ \E id \in running : \E o \in Outcomes : CheckerSettles(id, o)
    \/ \E path \in Keys \cap DOMAIN validationCache : ClearCache(path)
    \/ Clear

Spec == Init /\ [][Next]_vars

----------------------------------------------------------------------------
(* Properties of Spec *)

\* invocation id returns in this step: its await ends and it does not reach
\* another await
Returns(id) == id \in DOMAIN pending /\ id \notin DOMAIN pending'

\* C1: a validateField call that was superseded while it awaited a rule, and
\* whose rule then resolves, writes nothing to the error store or the cache
\* when it resumes; a call that was not superseded commits its own result:
\* the cache entry holds the value it validated and the stored errors are
\* the ones it computed.
C1_SupersededResultDiscarded ==
    [][\A id \in DOMAIN pending :
          /\ (Returns(id) /\ id \in aborted /\ pending[id].p.st = "ok")
                => (errors' = errors /\ validationCache' = validationCache)
          /\ (Returns(id) /\ id \notin aborted)
                => /\ pending[id].key \in DOMAIN validationCache'
                   /\ validationCache'[pending[id].key].value = pending[id].value
                   /\ errors'[pending[id].key] =
                          validationCache'[pending[id].key].errors
      ]_vars

\* C1 witness: a superseded call was discarded after the newer call for the
\* same field had committed a result for another value
C1_Witness ==
    /\ hist.discarded
    /\ pending = <<>>
    /\ <<"username">> \in DOMAIN validationCache
    /\ validationCache[<<"username">>].value = "xyz"
    /\ errors[<<"username">>] = <<MsgCustom>>

\* C2 (as claimed): the rejection delivered to a superseded call is swallowed:
\* the call writes nothing to the error store or the cache
C2_LateRejectionSwallowed ==
    [][\A id \in DOMAIN pending :
          (Returns(id) /\ id \in aborted /\ pending[id].p.st = "rej")
             => (errors' = errors /\ validationCache' = validationCache)
      ]_vars

\* the field of Spec
Username == <<"username">>

\* executions of the chain of key begun since its value last changed or its
\* cache entry was last invalidated
ChainRuns(h, key) == Get(h.chainRuns, key, 0)

\* the cache holds an entry for key made for the value the field has now
CachedForCurrentValue(key) ==
    /\ key \in DOMAIN validationCache
    /\ validationCache[key].value = CurrentValue(values, key)

\* C4 (as claimed): with the value unchanged and the cache not invalidated,
\* the chain of a field is executed at most once however often validateField
\* is called
C4_ChainRunsAtMostOnce ==
    \A k \in DOMAIN hist.chainRuns : hist.chainRuns[k] <= 1

\* C4 (amended): a validateField call made while the cache holds an entry for
\* the field's current value invokes no rule, suspends nothing, leaves the
\* cache alone and stores the cached errors; a call that finds no such entry
\* begins the chain exactly once; clearCache removes the entry.
C4_CacheHitRunsNoRule ==
    [][/\ (nextId' = nextId + 1 /\ CachedForCurrentValue(Username))
            => /\ ChainRuns(hist', Username) = ChainRuns(hist, Username)
               /\ pending' = pending
               /\ validationCache' = validationCache
               /\ errors'[Username] = validationCache[Username].errors
       /\ (nextId' = nextId + 1 /\ ~CachedForCurrentValue(Username))
            => ChainRuns(hist', Username) = ChainRuns(hist, Username) + 1
       /\ (hist'.ops = hist.ops + 1 /\ Username \in DOMAIN validationCache
           /\ Username \notin DOMAIN validationCache')
            => ChainRuns(hist', Username) = 0
      ]_vars

\* C4 witness: two validateField calls were made with the value unchanged,
\* the chain ran once and the second call stored the cached errors
C4_Witness ==
    /\ hist.ops = 2
    /\ nextId = 3
    /\ ChainRuns(hist, Username) = 1
    /\ CachedForCurrentValue(Username)
    /\ errors[Username] = validationCache[Username].errors
    /\ errors[Username] = <<MsgRequired>>

\* C10 (as claimed): while a validateField call that was not superseded is
\* suspended on a rule, the field's in-progress flag is true
C10_FlagTrueWhilePending ==
    \A id \in DOMAIN pending :
        id \notin aborted => Get(isValidating, pending[id].key, FALSE)

\* the await of invocation id ends in this step
Resumes(id) ==
    /\ id \in DOMAIN pending
    /\ pending[id].p.st # "pending"
    /\ (id \notin DOMAIN pending' \/ pending'[id] # pending[id])

\* C11: the chain of username is [required, remote, custom].  When required
\* fails, a validateField call suspends on no later rule, starts no debounce
\* timer and stores exactly the message of required; when an awaited rule
\* resolves to a message in a call that was not superseded, the call returns
\* without reaching the next rule and stores exactly that message.
C11_ChainShortCircuits ==
    [][/\ (nextId' = nextId + 1 /\ ~CachedForCurrentValue(Username)
           /\ Falsy(values.username))
            => /\ pending' = pending
               /\ timers' = timers
               /\ errors'[Username] = <<MsgRequired>>
       /\ \A id \in DOMAIN pending :
             (Resumes(id) /\ id \notin aborted /\ pending[id].p.st = "ok"
              /\ resolveValidationResult(pending[id].p.res) # <<>>)
                => /\ id \notin DOMAIN pending'
                   /\ errors'[pending[id].key] = <<pending[id].p.res>>
      ]_vars

\* C11 witness: the remote rule, second in the chain, failed and the call
\* returned with its message without awaiting the custom validator
C11_Witness ==
    /\ nextId = 2
    /\ pending = <<>>
    /\ running = {}
    /\ values.username # ""
    /\ ErrorsOf(errors, Username) = <<MsgRemote>>

----------------------------------------------------------------------------
(* Specification SpecForm: a form with a password and its confirmation,     *)
(* created with both fields filled in, validated field by field and as a    *)
(* whole                                                                    *)

RulesForm ==
    (<<"password">> :> <<"required">>)
        @@ (<<"confirm">> :> <<"sameAsPassword">>)

InitForm == InitWith([password |-> "abc", confirm |-> "abc"], RulesForm)

NextForm ==
    \/ \E f \in DOMAIN values : \E v \in FieldValues(f) : SetValue(f, v)
    \/ \E f \in DOMAIN values : WatcherRuns(f)
    \/ \E i \in 1..Len(tasks) : WatcherResumes(i)
    \/ \E name \in Keys : ValidateField(name)
    \/ \E id \in DOMAIN pending : Resume(id)
    \/ ValidateForm
    \/ FormJoin

SpecForm == InitForm /\ [][NextForm]_vars

----------------------------------------------------------------------------
(* Specification SpecCascade: the same two fields, where confirm must also  *)
(* pass a custom asynchronous validator; the fields are touched and changed *)
(* and the watchers revalidate                                              *)

RulesCascade ==
    (<<"password">> :> <<"required">>)
        @@ (<<"confirm">> :> <<"sameAsPassword", "customAsync">>)

InitCascade == InitWith([password |-> "abc", confirm |-> "abc"], RulesCascade)

NextCascade ==
    \/ \E f \in DOMAIN values : \E v \in FieldValues(f) : SetValue(f, v)
    \/ \E f \in DOMAIN values : WatcherRuns(f)
    \/ \E i \in 1..Len(tasks) : WatcherResumes(i)
    \/ \E name \in Keys : Touch(name)
    \/ \E id \in DOMAIN pending : Resume(id)
    \/ \E id \in DOMAIN pending : \E o \in Outcomes : CustomSettles(id, o)

SpecCascade == InitCascade /\ [][NextCascade]_vars

----------------------------------------------------------------------------
(* Specification SpecSubmit: a form with one field checked by a custom      *)
(* asynchronous validator, submitted while the field is edited and          *)
(* validated                                                                *)

RulesSubmit == <<"username">> :> <<"customAsync">>

InitSubmit == InitWith([username |-> "abc"], RulesSubmit)

NextSubmit ==
    \/ \E f \in DOMAIN values : \E v \in FieldValues(f) : SetValue(f, v)
    \/ \E f \in DOMAIN values : WatcherRuns(f)
    \/ \E i \in 1..Len(tasks) : WatcherResumes(i)
    \/ \E name \in Keys : ValidateField(name)
    \/ \E id \in DOMAIN pending : Resume(id)
    \/ \E id \in DOMAIN pending : \E o \in Outcomes : CustomSettles(id, o)
    \/ Submit
    \/ FormJoin
    \/ SubmitTick
    \/ OnSubmitSettles

SpecSubmit == InitSubmit /\ [][NextSubmit]_vars

----------------------------------------------------------------------------
(* Specification SpecCond: a form where company is required only for the    *)
(* business type and code is checked by custom() around a synchronous       *)
(* validator                                                                *)

RulesCond ==
    (<<"company">> :> <<"requiredIfBusiness">>)
        @@ (<<"code">> :> <<"customSync">>)

InitCond ==
    InitWith([type |-> "personal", company |-> "", code |-> ""], RulesCond)

NextCond ==
    \/ \E f \in DOMAIN values : \E v \in FieldValues(f) : SetValue(f, v)
    \/ \E f \in DOMAIN values : WatcherRuns(f)
    \/ \E i \in 1..Len(tasks) : WatcherResumes(i)
    \/ \E name \in Keys : ValidateField(name)
    \/ \E id \in DOMAIN pending : Resume(id)
    \/ ValidateForm
    \/ FormJoin

SpecCond == InitCond /\ [][NextCond]_vars

----------------------------------------------------------------------------
(* Properties of the form specifications *)

\* C3 (as claimed), under SpecSubmit: at the step in which submit() invokes
\* onSubmit no field has a stored error and no field is being validated
C3_OnSubmitOnlyWhenValid ==
    [][(submitPc = "tick" /\ submitPc' = "onSubmit")
          => /\ \A k \in DOMAIN errors : errors[k] = <<>>
             /\ \A k \in DOMAIN isValidating : ~isValidating[k]
      ]_vars

\* confirm differs from password, so sameAs('password') rejects confirm
Mismatch == values.confirm # values.password

\* C5 (as claimed), under SpecForm: when a validateForm() call completes, no
\* value changed while it ran and no validation is still in flight, the
\* stored errors of confirm are the ones its chain yields against the
\* current password
C5_FormValidatesAgainstNewPassword ==
    [][(formCall.active /\ ~formCall'.active /\ formCall.vals = values
        /\ pending = <<>>)
          => (errors'[<<"confirm">>] =
                 IF Mismatch THEN <<MsgMismatch>> ELSE <<>>)
      ]_vars

\* nothing is left to run: no suspended validation, watcher job or callback
Quiescent ==
    /\ pending = <<>>
    /\ tasks = <<>>
    /\ \A f \in DOMAIN watchQueued : ~watchQueued[f]

\* C6 (as claimed), under SpecCascade: once confirm is touched, every change
\* of password is followed by a run of confirm's chain against the new
\* values, so when nothing is left to run confirm's stored error is the
\* mismatch message exactly if confirm differs from password
C6_ConfirmFollowsPassword ==
    (Quiescent /\ Get(touched, <<"confirm">>, FALSE))
        => (Mismatch <=> ErrorsOf(errors, <<"confirm">>) = <<MsgMismatch>>)

\* the only stored errors are those of company, whose requiredIf condition
\* (type is business) is false, and nothing is being validated
OnlyInactiveCompanyHasErrors ==
    /\ values.type # "business"
    /\ ErrorsOf(errors, <<"company">>) # <<>>
    /\ \A k \in DOMAIN errors : errors[k] # <<>> => k = <<"company">>
    /\ \A k \in DOMAIN isValidating : ~isValidating[k]

\* C7 (as claimed), under SpecCond: a stale error of the inactive company
\* field does not make the form invalid
C7_InactiveFieldExcluded ==
    OnlyInactiveCompanyHasErrors
        => isValid(stateRules, values, errors, isValidating)

\* C8 (as claimed), under SpecCond: hasAnyErrors ignores the errors of the
\* inactive company field
C8_HasAnyErrorsIgnoresInactive ==
    OnlyInactiveCompanyHasErrors => ~hasAnyErrors(errors)

\* C9 (as claimed), under SpecCond: the chain of code is custom() around a
\* synchronous validator, so the in-progress flag of code is never true
C9_SyncChainNeverValidating == ~Get(isValidating, <<"code">>, FALSE)

----------------------------------------------------------------------------
(* Specification SpecDebounce: a form with one field checked by a debounced *)
(* remote check only, validated again and again while timers fire and the   *)
(* checker answers                                                          *)

RulesDebounce == <<"username">> :> <<"remote">>

InitDebounce == InitWith([username |-> "abc"], RulesDebounce)

NextDebounce ==
    \/ \E f \in DOMAIN values : \E v \in FieldValues(f) : SetValue(f, v)
    \/ \E f \in DOMAIN values : WatcherRuns(f)
    \/ \E name \in Keys : ValidateField(name)
    \/ \E id \in DOMAIN pending : Resume(id)
    \/ \E id \in timers : TimerFires(id)
    \/ \E id \in running : \E o \in Outcomes : CheckerSettles(id, o)

SpecDebounce == InitDebounce /\ [][NextDebounce]_vars

\* C19 (as claimed), under SpecDebounce: a call of the debounced checker made
\* while the timer of an earlier call has not fired yet cancels that timer and
\* rejects that call's promise as superseded, and a timer that fires executes
\* the checker for the most recent call
C19_BurstRunsLastCallOnly ==
    [][/\ (nextId' = nextId + 1 /\ nextId \in timers')
            => \A id \in timers :
                  /\ id \notin timers'
                  /\ id \in DOMAIN pending
                        => (id \in DOMAIN pending'
                            /\ pending'[id].p.st = "rej"
                            /\ pending'[id].p.res = MsgSuperseded)
       /\ \A id \in running' \ running : id = hist.lastCall
      ]_vars

\* C20 (as claimed), under SpecDebounce: the checker never executes for a
\* call whose promise was rejected as superseded, and no timer of such a
\* call is left scheduled
C20_SupersededTimerCancelled ==
    hist.superseded \cap (timers \cup running) = {}

----------------------------------------------------------------------------
(* Specification SpecFault: a form whose code rule throws on an empty value *)
(* and whose username is checked by a custom validator that may reject; the *)
(* fields are validated one by one and as a whole                           *)

RulesFault ==
    (<<"code">> :> <<"throwing", "customAsync">>)
        @@ (<<"username">> :> <<"customAsync">>)
        @@ (<<"title">> :> <<"required">>)

InitFault ==
    \E c \in {"", "secret"} :
        InitWith([code |-> c, username |-> "abc", title |-> ""], RulesFault)

NextFault ==
    \/ \E name \in Keys : ValidateField(name)
    \/ \E id \in DOMAIN pending : Resume(id)
    \/ \E id \in DOMAIN pending : \E o \in Outcomes : CustomSettles(id, o)
    \/ ValidateForm
    \/ FormJoin

SpecFault == InitFault /\ [][NextFault]_vars

\* C13, under SpecFault: a rule that throws is turned into the one message of
\* its field and ends the chain (no call for an empty code ever awaits the
\* custom validator that follows the throwing rule); the rejection of an
\* awaited rule in a call that was not superseded ends the call and is
\* committed as the field's only message; and a validateForm call none of
\* whose validations was superseded, and in which a rule faulted, completes
\* with every field committed and resolves false.
C13_RuleFaultBecomesError ==
    [][/\ \A id \in DOMAIN pending :
             pending[id].key = <<"code">> => pending[id].value # ""
       /\ (<<"code">> \in DOMAIN validationCache
           /\ validationCache[<<"code">>].value = "")
             => validationCache[<<"code">>].errors = <<MsgFault>>
       /\ \A id \in DOMAIN pending :
             (Resumes(id) /\ id \notin aborted /\ pending[id].p.st = "rej")
                => /\ id \notin DOMAIN pending'
                   /\ errors'[pending[id].key] = <<pending[id].p.res>>
                   /\ validationCache'[pending[id].key].errors =
                          <<pending[id].p.res>>
       /\ (formCall.active /\ ~formCall'.active
           /\ formCall.ids \cap aborted = {}
           /\ \E k \in DOMAIN errors : errors[k] = <<MsgFault>>)
             => /\ hist'.formResult = "false"
                /\ \A k \in formCall.fields :
                      /\ k \in DOMAIN validationCache'
                      /\ errors'[k] = validationCache'[k].errors
      ]_vars

\* C13 witness: validateForm resolved false after the code rule threw and the
\* username validator rejected, with title validated and committed as well
C13_Witness ==
    /\ hist.formResult = "false"
    /\ ~formCall.active
    /\ pending = <<>>
    /\ ErrorsOf(errors, <<"code">>) = <<MsgFault>>
    /\ ErrorsOf(errors, <<"username">>) = <<MsgFault>>
    /\ <<"title">> \in DOMAIN validationCache

----------------------------------------------------------------------------
(* Specification SpecExpand: the wildcard expander applied to rule          *)
(* collections and value trees, through getExpandedRules()                  *)

\* the arrays of at most MaxLen elements { name }
Arrays ==
    UNION {[1..n -> {[name |-> ""], [name |-> "abc"]}] : n \in 0..MaxLen}

\* value trees: title is a string; items is missing or an array
ExpandTrees ==
    {[title |-> "abc"]} \cup {[title |-> "abc", items |-> a] : a \in Arrays}

\* rule collections: a plain path, a wildcard path under the array and a
\* wildcard path under the string, each with a chain of its own
ExpandChains ==
    (<<"title">> :> <<"required">>)
        @@ (<<"items", "*", "name">> :> <<"required", "customSync">>)
        @@ (<<"title", "*", "name">> :> <<"customSync">>)

ExpandRules == {[p \in S |-> ExpandChains[p]] : S \in SUBSET DOMAIN ExpandChains}

InitExpand == \E tree \in ExpandTrees : \E rls \in ExpandRules : InitWith(tree, rls)

\* getExpandedRules(): fill the cache when it is null
GetExpandedRules ==
    /\ ~expandedRulesCache.valid
    /\ expandedRulesCache' =
          [valid |-> TRUE, rules |-> expandWildcardPaths(rules, values)]
    /\ UNCHANGED <<values, rules, stateRules, fieldDependencies, initialValues, obj, errors, touched, isValidating,
                   validationCache, abortControllers, aborted, pending,
                   nextId, timeoutId, pendingReject, timers, running,
                   watchVars, formVars, hist>>

\* invalidateExpandedRulesCache()
InvalidateExpandedRulesCache ==
    /\ expandedRulesCache.valid
    /\ expandedRulesCache' = NoExpansion
    /\ UNCHANGED <<values, rules, stateRules, fieldDependencies, initialValues, obj, errors, touched, isValidating,
                   validationCache, abortControllers, aborted, pending,
                   nextId, timeoutId, pendingReject, timers, running,
                   watchVars, formVars, hist>>

NextExpand == GetExpandedRules \/ InvalidateExpandedRulesCache

SpecExpand == InitExpand /\ [][NextExpand]_vars

\* the length of items, 0 when items is missing
ItemsLength == IF "items" \in DOMAIN values THEN Len(values.items) ELSE 0

\* C14, under SpecExpand: the expansion holds the plain rule paths with their
\* own chains; when items.*.name has rules, exactly one path items.i.name for
\* every index i of items, bound to the chain of items.*.name, and none when
\* items is missing or empty; nothing for a wildcard path under a field that
\* is not an array; and no other path.
C14_WildcardExpansion ==
    expandedRulesCache.valid =>
        LET expanded == expandedRulesCache.rules
            wild == <<"items", "*", "name">>
            concrete == {p \in DOMAIN expanded : Len(p) = 3}
        IN  /\ \A p \in DOMAIN rules :
                  ~HasWildcard(p) => (p \in DOMAIN expanded
                                      /\ expanded[p] = rules[p])
            /\ \A p \in DOMAIN expanded : ~HasWildcard(p)
            /\ \A p \in DOMAIN expanded \ concrete : p \in DOMAIN rules
            /\ Cardinality(concrete) =
                  (IF wild \in DOMAIN rules THEN ItemsLength ELSE 0)
            /\ \A p \in concrete :
                  /\ p[1] = "items" /\ p[3] = "name"
                  /\ \E i \in 0..(ItemsLength - 1) : p[2] = IndexStr(i)
                  /\ expanded[p] = rules[wild]

\* C14 witness: a rule on items.*.name and on title was expanded against an
\* array of two elements
C14_Witness ==
    /\ expandedRulesCache.valid
    /\ ItemsLength = 2
    /\ DOMAIN rules = {<<"title">>, <<"items", "*", "name">>}
    /\ DOMAIN expandedRulesCache.rules =
          {<<"title">>, <<"items", "0", "name">>, <<"items", "1", "name">>}

----------------------------------------------------------------------------
(* Specification SpecArray: a form with an array of contacts and a wildcard *)
(* rule on the name of every contact; contacts are added and removed while  *)
(* the form and single paths are validated                                  *)

RulesArray == <<"contacts", "*", "name">> :> <<"required", "customAsync">>

InitArray ==
    InitWith([contacts |-> <<[name |-> ""], [name |-> "abc"]>>], RulesArray)

\* the name of contact index
ContactName(index) == <<"contacts", IndexStr(index), "name">>

\* the paths the application validates one by one
ArrayPaths == {<<"contacts">>} \cup {ContactName(i) : i \in 0..(MaxLen - 1)}

NextArray ==
    \/ \E i \in 0..(MaxLen - 1) : RemoveArrayItem("contacts", i)
    \/ AddArrayItem("contacts", [name |-> ""])
    \/ \E f \in DOMAIN values : WatcherRuns(f)
    \/ \E i \in 1..Len(tasks) : WatcherResumes(i)
    \/ \E name \in ArrayPaths : ValidateField(name)
    \/ \E id \in DOMAIN pending : Resume(id)
    \/ \E id \in DOMAIN pending :
          \E o \in {"true", "false"} : CustomSettles(id, o)
    \/ ValidateForm
    \/ FormJoin

SpecArray == InitArray /\ [][NextArray]_vars

\* C12, under SpecArray: a validateField call for a path no rule applies to
\* (contacts itself, or the name of a contact beyond the end of the array)
\* leaves the path with the empty error list whatever it held, and invokes no
\* rule: nothing is suspended, no chain begins, the cache and the errors of
\* the other paths stay as they are.
C12_NoRuleClearsErrors ==
    [][hist'.noRule # hist.noRule
          => LET name == hist'.noRule.path
             IN  /\ FieldRules(rules, values, name) = <<>>
                 /\ name \in DOMAIN errors'
                 /\ errors'[name] = <<>>
                 /\ \A k \in DOMAIN errors : k # name =>
                        (k \in DOMAIN errors' /\ errors'[k] = errors[k])
                 /\ pending' = pending
                 /\ validationCache' = validationCache
                 /\ hist'.chainRuns = hist.chainRuns
      ]_vars

\* C12 witness: a path without rules that held an error was validated and
\* now holds the empty list
C12_Witness ==
    /\ hist.noRule.held # <<>>
    /\ hist.noRule.path \in DOMAIN errors
    /\ errors[hist.noRule.path] = <<>>

\* the paths under contacts in a map
NestedKeys(f) == {k \in DOMAIN f : Len(k) = 3 /\ k[1] = "contacts"}

\* C15, under SpecArray: when a validateForm() call completes during which
\* the application made no other call and none of whose validations was
\* superseded, every contact with an empty name has exactly the message of
\* required at its current index, a non-empty error is stored only at the
\* indices of the array, and no error is addressable at an index beyond
\* the end of the array.
C15_RemovalLeavesReindexedErrors ==
    [][(formCall.active /\ ~formCall'.active /\ hist.ops = formCall.ops
        /\ formCall.ids \cap aborted = {})
          => /\ \A i \in 0..(Len(values.contacts) - 1) :
                   /\ ContactName(i) \in DOMAIN errors'
                   /\ values.contacts[i + 1].name = ""
                         => errors'[ContactName(i)] = <<MsgRequired>>
             /\ \A k \in NestedKeys(errors') :
                   ParseIndex(k[2]) < Len(values.contacts)
      ]_vars

\* C15 witness: both contacts had stored errors, the first was removed, and
\* validateForm() left one error, at contacts.0.name, for the contact that
\* was second
C15_Witness ==
    /\ hist.removal.index = 0
    /\ hist.removal.erred = {ContactName(0), ContactName(1)}
    /\ values.contacts = <<[name |-> "abc"]>>
    /\ ~formCall.active
    /\ hist.formResult = "false"
    /\ pending = <<>>
    /\ {k \in DOMAIN errors : errors[k] # <<>>} = {ContactName(0)}
    /\ ContactName(1) \notin DOMAIN errors

\* C16 (as claimed), under SpecArray: once a contact was removed, no cache
\* entry and no stored error is left at an index beyond the end of the array
C16_NoEntryBeyondArrayEnd ==
    hist.removal.index >= 0 =>
        /\ \A k \in NestedKeys(validationCache) :
              ParseIndex(k[2]) < Len(values.contacts)
        /\ \A k \in NestedKeys(errors) :
              errors[k] # <<>> => ParseIndex(k[2]) < Len(values.contacts)

----------------------------------------------------------------------------
(* Specification SpecRules: a form with a name and an array of contacts     *)
(* whose rule collection is replaced while fields are validated and         *)
(* contacts are removed                                                     *)

RuleChains ==
    (<<"name">> :> <<"required">>)
        @@ (<<"contacts", "*", "name">> :> <<"required">>)

\* the collections setRules is called with
RuleSets == {[p \in S |-> RuleChains[p]] : S \in SUBSET DOMAIN RuleChains}

InitRules ==
    InitWith([name |-> "", contacts |-> <<[name |-> ""], [name |-> "abc"]>>],
             RuleChains)

NextRules ==
    \/ \E r \in RuleSets : SetRules(r)
    \/ \E i \in 0..(MaxLen - 1) : RemoveArrayItem("contacts", i)
    \/ \E f \in DOMAIN values : WatcherRuns(f)
    \/ \E i \in 1..Len(tasks) : WatcherResumes(i)
    \/ \E name \in ArrayPaths \cup {<<"name">>} : ValidateField(name)
    \/ ValidateForm
    \/ FormJoin

SpecRules == InitRules /\ [][NextRules]_vars

\* the rule paths of r and the names of the contacts there are, when r has
\* the wildcard rule
ActivePaths(r) ==
    (DOMAIN r) \cup
        (IF <<"contacts", "*", "name">> \in DOMAIN r
         THEN {ContactName(i) : i \in 0..(Len(values.contacts) - 1)}
         ELSE {})

\* C17, under SpecRules: right after setRules(R) every key of the error store
\* is a rule path of R or the name of a contact there is (when R has the
\* wildcard rule), and the errors stored under such keys are the ones stored
\* before.
C17_SetRulesPrunesErrors ==
    [][rules' # rules
          => /\ DOMAIN errors' \subseteq ActivePaths(rules')
             /\ \A k \in (DOMAIN errors) \cap ActivePaths(rules') :
                   k \in DOMAIN errors' /\ errors'[k] = errors[k]
      ]_vars

\* C17 witness: name and the first contact had errors; the rules of the
\* contacts were removed; only the error of name is left
C17_Witness ==
    /\ DOMAIN rules = {<<"name">>}
    /\ errors = (<<"name">> :> <<MsgRequired>>)
    /\ ContactName(0) \in DOMAIN validationCache
    /\ validationCache[ContactName(0)].errors = <<MsgRequired>>

\* C18 (as claimed), under SpecRules: right after setRules(R) every key of
\* the validation cache is a rule path of R or the name of a contact there is
C18_SetRulesPrunesCache ==
    [][rules' # rules => DOMAIN validationCache' \subseteq ActivePaths(rules')
      ]_vars

----------------------------------------------------------------------------
(* Specification SpecResubmit: the application submits the form again and  *)
(* again, also while a submit is in progress, and validates the field      *)

NextResubmit ==
    \/ \E name \in Keys : ValidateField(name)
    \/ \E id \in DOMAIN pending : Resume(id)
    \/ \E id \in DOMAIN pending : \E o \in Outcomes : CustomSettles(id, o)
    \/ Submit
    \/ FormJoin
    \/ SubmitTick
    \/ OnSubmitSettles

SpecResubmit == InitSubmit /\ [][NextResubmit]_vars

\* the variables a submit() call that passes its guard may write
submitVars ==
    <<values, errors, touched, isValidating, validationCache,
      abortControllers, pending, nextId, formCall, isSubmitting, submitPc>>

\* C21, under SpecResubmit: a submit() call made while a submit is in progress returns without
\* validating and without calling onSubmit (it changes nothing); a submit
\* starts validating only when none is in progress, so each submit in
\* progress invokes onSubmit at most once, from its own continuation; and
\* when the submit settles (validation failed, or onSubmit fulfilled or
\* rejected) isSubmitting is false again
C21_OverlappingSubmitIgnored ==
    [][/\ (hist'.skipped # hist.skipped) =>
              /\ isSubmitting
              /\ UNCHANGED submitVars
              /\ hist'.onSubmit = hist.onSubmit
       /\ (submitPc # "validating" /\ submitPc' = "validating") =>
              ~isSubmitting
       /\ (hist'.onSubmit # hist.onSubmit) =>
              /\ submitPc = "tick" /\ submitPc' = "onSubmit"
              /\ hist'.onSubmit = hist.onSubmit + 1
       /\ isSubmitting' = (submitPc' # "idle")
      ]_vars

\* a submit() was called while another was in progress, onSubmit ran once
\* and the first submit has settled
C21_Witness ==
    /\ hist.skipped >= 1
    /\ hist.onSubmit = 1
    /\ submitPc = "idle"
    /\ ~isSubmitting

\* an overlapping submit() was ignored and the first one settled on a
\* failed validation, without onSubmit
C21_WitnessInvalid ==
    /\ hist.skipped >= 1
    /\ hist.onSubmit = 0
    /\ hist.formResult = "false"
    /\ submitPc = "idle"
    /\ ~isSubmitting

----------------------------------------------------------------------------
(* Specification SpecDispose: a form with one field checked by a custom    *)
(* asynchronous validator, which the application edits, validates and      *)
(* disposes                                                                *)

NextDispose ==
    \/ \E f \in DOMAIN values : \E v \in FieldValues(f) : SetValue(f, v)
    \/ \E f \in DOMAIN values : WatcherRuns(f)
    \/ \E i \in 1..Len(tasks) : WatcherResumes(i)
    \/ \E name \in Keys : ValidateField(name)
    \/ \E name \in Keys : Touch(name)
    \/ \E id \in DOMAIN pending : Resume(id)
    \/ \E id \in DOMAIN pending : \E o \in Outcomes : CustomSettles(id, o)
    \/ Dispose

SpecDispose == InitSubmit /\ [][NextDispose]_vars

\* dispose() has been called: no watcher is left
Disposed == DOMAIN watchQueued = {}

\* C22 (as claimed), under SpecDispose: dispose() leaves the validation cache
\* empty; a validation that was in flight at dispose() commits nothing when
\* its rule settles afterwards (no error write, no cache write); and a value
\* change after dispose() queues no watcher job, starts no validation and
\* changes no stored error
C22_DisposedCommitsNothing ==
    [][/\ (Disposed' /\ ~Disposed) => validationCache' = <<>>
       /\ Disposed =>
            /\ \A id \in DOMAIN pending :
                  (Resumes(id) /\ id \in aborted)
                     => (errors' = errors
                         /\ validationCache' = validationCache)
            /\ (values' # values)
                  => (watchQueued' = watchQueued /\ tasks' = tasks
                      /\ nextId' = nextId /\ errors' = errors)
      ]_vars

----------------------------------------------------------------------------
(* clear() while a validation is in flight, under Spec *)

\* C23 (as claimed), under Spec: when clear() is called while a validation
\* of the field is suspended on an asynchronous rule and no later call has
\* superseded that validation, the step in which the validation returns
\* leaves the field with no stored error and not validating
C23_ClearedResultDoesNotSurface ==
    [][\A id \in DOMAIN pending :
          (Returns(id) /\ id \in hist.cleared /\ id \notin aborted)
             => /\ ErrorsOf(errors', Username) = <<>>
                /\ ~Get(isValidating', Username, FALSE)
      ]_vars

----------------------------------------------------------------------------
(* The watcher of a changed field, under SpecCascade *)

\* the post flush runs the watcher job of field f in this step
WatcherJobRuns(f) == watchQueued[f] /\ ~watchQueued'[f]

\* neither f, nor a field whose rules depend on f, nor a nested path of f is
\* touched
NothingTouchedAround(f) ==
    /\ ~Get(touched, <<f>>, FALSE)
    /\ \A d \in getDependentFields(fieldDependencies, <<f>>) : ~Get(touched, d, FALSE)
    /\ touchedNestedFields(touched, f) = <<>>

\* C24, under SpecCascade: when the watcher job of a field whose value
\* changed runs, the cache entry of the field is dropped; if the field is
\* touched the callback goes on to revalidate it (after nextTick it calls
\* validateField); if neither the field nor a dependent nor a nested path is
\* touched, no validateField call is made, so no rule is invoked, and no
\* stored error changes
C24_WatcherRevalidatesTouchedOnly ==
    [][/\ \A f \in DOMAIN values :
            (WatcherJobRuns(f) /\ values[f] # watchOld[f]) =>
                /\ <<f>> \notin DOMAIN validationCache'
                /\ NothingTouchedAround(f) =>
                      /\ nextId' = nextId /\ pending' = pending
                      /\ tasks' = tasks /\ errors' = errors
                /\ Get(touched, <<f>>, FALSE) =>
                      /\ Len(tasks') = Len(tasks) + 1
                      /\ tasks'[Len(tasks')].field = f
                      /\ tasks'[Len(tasks')].pc = "selfTick"
       /\ \A i \in 1..Len(tasks) :
            (/\ tasks[i].pc = "selfTick"
             /\ Len(tasks') = Len(tasks)
             /\ tasks'[i].pc = "selfWait") => nextId' = nextId + 1
      ]_vars

\* the untouched field password was changed and its watcher job has run:
\* nothing was validated
C24_Witness ==
    /\ values.password # "abc"
    /\ watchOld.password = values.password
    /\ ~watchQueued.password
    /\ ~Get(touched, <<"password">>, FALSE)
    /\ ~Get(touched, <<"confirm">>, FALSE)
    /\ nextId = 1
    /\ tasks = <<>>

----------------------------------------------------------------------------
(* Specification SpecToggle: a form whose array field tags has a plain rule *)
(* (alone, or followed by a custom asynchronous validator); the application *)
(* toggles items                                                            *)

TagItems == {"vue"}

InitToggle ==
    \E chain \in {<<"atLeastOne">>, <<"atLeastOne", "customAsync">>} :
        InitWith([tags |-> <<>>], <<"tags">> :> chain)

NextToggle ==
    \/ \E item \in TagItems : ToggleArrayItem("tags", item)
    \/ \E f \in DOMAIN values : WatcherRuns(f)
    \/ \E i \in 1..Len(tasks) : WatcherResumes(i)
    \/ \E id \in DOMAIN pending : Resume(id)
    \/ \E id \in DOMAIN pending : \E o \in {"true", "false"} :
            CustomSettles(id, o)

SpecToggle == InitToggle /\ [][NextToggle]_vars

\* C25, under SpecToggle: the executions of the field's rule chain number at
\* most two for each toggleArrayItem call made: the one of the validateField
\* call inside the helper and at most one of the watcher callback; never
\* three for one call
C25_ToggleRunsChainAtMostTwice ==
    hist.toggled.runs <= 2 * hist.toggled.n

\* one toggleArrayItem call was made, the chain was executed twice (by the
\* helper and by the watcher) and everything has settled
C25_Witness ==
    /\ hist.toggled.n = 1
    /\ hist.toggled.runs = 2
    /\ pending = <<>>
    /\ tasks = <<>>
    /\ ~watchQueued.tags

----------------------------------------------------------------------------
(* validateForm and the touched flags, under SpecArray *)

\* C26 (as claimed), under SpecArray: when a validateForm call completes,
\* every expanded path it validated is marked touched, the concrete nested
\* paths of a wildcard rule (contacts.0.name) included
C26_ValidateFormTouchesExpandedPaths ==
    [][(formCall.active /\ ~formCall'.active)
          => \A k \in formCall.fields : Get(touched', k, FALSE)
      ]_vars

----------------------------------------------------------------------------
(* Specification SpecWildcard: a form with two contacts, each with an email *)
(* and its confirmation; the confirmation is declared equal to the email by *)
(* a wildcard rule against a wildcard dependency                            *)

RulesWildcard ==
    (<<"contacts", "*", "email">> :> <<"required">>)
        @@ (<<"contacts", "*", "confirmEmail">> :> <<"sameAsEmail">>)

Emails == {"", "a@b.com"}
Confirmations == {"", "a@b.com", "wrong"}

InitWildcard ==
    \E e0 \in Emails, c0 \in Confirmations,
       e1 \in Emails, c1 \in Confirmations :
        InitWith([contacts |-> <<[email |-> e0, confirmEmail |-> c0],
                                 [email |-> e1, confirmEmail |-> c1]>>],
                 RulesWildcard)

ContactPath(index, property) == <<"contacts", IndexStr(index), property>>

NextWildcard ==
    \/ \E i \in 0..1 : \E property \in {"email", "confirmEmail"} :
          ValidateField(ContactPath(i, property))
    \/ \E id \in DOMAIN pending : Resume(id)
    \/ ValidateForm
    \/ FormJoin

SpecWildcard == InitWildcard /\ [][NextWildcard]_vars

\* C27 (as claimed), under SpecWildcard: once validateForm has completed and
\* no validation is in flight, for every index i the stored errors of
\* contacts.i.confirmEmail are empty when it equals contacts.i.email of the
\* same index and hold the mismatch message when it differs
C27_WildcardSameAsPerElement ==
    (hist.formResult # "none" /\ ~formCall.active /\ pending = <<>>)
        => \A i \in 0..(Len(values.contacts) - 1) :
              ErrorsOf(errors, ContactPath(i, "confirmEmail")) =
                 IF values.contacts[i + 1].confirmEmail
                        = values.contacts[i + 1].email
                 THEN <<>>
                 ELSE <<MismatchMessage("contacts.*.email")>>

----------------------------------------------------------------------------
(* Specification SpecReset: a form with a name and an initially empty list  *)
(* of tags; the application edits both and resets the form, with or without *)
(* new initial values                                                       *)

InitReset ==
    InitWith([name |-> "Alice", tags |-> <<>>], <<"tags">> :> <<"atLeastOne">>)

NextReset ==
    \/ \E v \in FieldValues("name") : SetValue("name", v)
    \/ \E item \in {"vue", "ts"} : AddArrayItem("tags", item)
    \/ \E i \in 0..(MaxLen - 1) : RemoveArrayItem("tags", i)
    \/ \E f \in DOMAIN values : WatcherRuns(f)
    \/ Reset({}, "")
    \/ Reset({"name"}, "Carol")
    \/ Reset({"tags"}, <<"js">>)

SpecReset == InitReset /\ [][NextReset]_vars

\* C28 (as claimed), under SpecReset: a reset() call leaves every field with
\* the value given for it at construction or by the latest reset(newValues),
\* whatever was done in between, addArrayItem and removeArrayItem included
C28_ResetRestoresInitialValues ==
    [][(hist'.resets # hist.resets) => values' = hist'.initial]_vars

----------------------------------------------------------------------------
(* Specification SpecNested: setNestedValue applied again and again to an   *)
(* object that starts as null, empty, or with a mapping or an array under   *)
(* a, along paths of up to MaxLen segments                                  *)

Segments == {"a", "b", "0"}

RECURSIVE PathsOfLength(_)
PathsOfLength(n) ==
    IF n = 0 THEN {<<>>}
    ELSE {Append(p, seg) : p \in PathsOfLength(n - 1), seg \in Segments}

NestedPaths == UNION {PathsOfLength(n) : n \in 0..MaxLen}

Roots ==
    {NullNode, Container("map"),
     [Container("map") EXCEPT !.kids = "a" :> Container("map")],
     [Container("map") EXCEPT !.kids = "a" :> Container("array")]}

InitNested == \E root \in Roots : InitState(<<>>, <<>>, root)

NextNested == \E path \in NestedPaths : SetNestedValue(path, "x")

SpecNested == InitNested /\ [][NextNested]_vars

\* the node of tree at path p, if any
RECURSIVE NodeAt(_, _)
NodeAt(tree, p) ==
    IF p = <<>> THEN tree
    ELSE IF Head(p) \in DOMAIN tree.kids
    THEN NodeAt(tree.kids[Head(p)], Tail(p))
    ELSE [kind |-> "missing", kids |-> <<>>, val |-> ""]

\* C29 (as claimed), under SpecNested: a setNestedValue call is a no-op when
\* the path is empty or the root is null; and every intermediate container
\* it creates, for segment k, is an array if the segment after k is a
\* non-negative integer (also when that segment is the last of the path) and
\* a plain mapping otherwise
C29_CreatedContainerKind ==
    [][(hist'.sets # hist.sets) =>
          LET path == hist'.setPath
          IN  /\ (path = <<>> \/ obj.kind = "null") => obj' = obj
              /\ \A k \in 1..(Len(path) - 1) :
                    LET prefix == SubSeq(path, 1, k)
                    IN  (/\ NodeAt(obj, prefix).kind = "missing"
                         /\ NodeAt(obj', prefix).kind # "missing")
                           => NodeAt(obj', prefix).kind =
                                 IF IsIndex(path[k + 1]) THEN "array"
                                 ELSE "map"
      ]_vars

----------------------------------------------------------------------------
(* Specification SpecStale: the form of SpecArray, where the application    *)
(* changes the array through the reactive values, so that the expansion     *)
(* cached by validateForm goes stale, and validates single paths            *)

NextStale ==
    \/ PushItem("contacts", [name |-> ""])
    \/ \E i \in 0..(MaxLen - 1) : SpliceItem("contacts", i)
    \/ \E f \in DOMAIN values : WatcherRuns(f)
    \/ \E i \in 1..Len(tasks) : WatcherResumes(i)
    \/ \E name \in ArrayPaths : ValidateField(name)
    \/ \E id \in DOMAIN pending : Resume(id)
    \/ \E id \in DOMAIN pending :
          \E o \in {"true", "false"} : CustomSettles(id, o)
    \/ ValidateForm
    \/ FormJoin

SpecStale == InitArray /\ [][NextStale]_vars

\* C30, under SpecStale: validateField finds the rules of a path from the
\* array as it is at the call, whatever expansion is cached: a call that
\* finds no rule for contacts.i.name is for an index at or beyond the end of
\* the array (so a call for an index inside the array, a just appended one
\* included, runs the wildcard rule's chain or takes its cached result), and
\* the chain is executed only for an index inside the array (so never for a
\* removed index)
C30_RulesFollowArrayLength ==
    [][/\ (hist'.noRule.n # hist.noRule.n /\ Len(hist'.noRule.path) = 3)
            => ParseIndex(hist'.noRule.path[2]) >= Len(values.contacts)
       /\ \A i \in 0..(Len(Digits) - 1) :
            ChainRuns(hist', ContactName(i)) > ChainRuns(hist, ContactName(i))
               => i < Len(values.contacts)
      ]_vars

\* the cached expansion is stale (it lacks the appended third contact) and
\* validateField has run the chain for that contact
C30_Witness ==
    /\ Len(values.contacts) = 3
    /\ expandedRulesCache.valid
    /\ ContactName(2) \notin DOMAIN expandedRulesCache.rules
    /\ ErrorsOf(errors, ContactName(2)) = <<MsgRequired>>

\* the cached expansion is stale (it still has the removed second contact)
\* and validateField has found no rule for that contact
C30_WitnessRemoved ==
    /\ Len(values.contacts) = 1
    /\ expandedRulesCache.valid
    /\ ContactName(1) \in DOMAIN expandedRulesCache.rules
    /\ hist.noRule.path = ContactName(1)

----------------------------------------------------------------------------
(* Specification SpecDeps: a form where confirm depends on password and     *)
(* password on type; the application replaces the rule collection by any    *)
(* part of it, edits and touches the fields                                 *)

DepChains ==
    (<<"type">> :> <<"required">>)
        @@ (<<"password">> :> <<"requiredIfBusiness">>)
        @@ (<<"confirm">> :> <<"sameAsPassword">>)

\* the collections setRules is called with
DepRuleSets == {[p \in S |-> DepChains[p]] : S \in SUBSET DOMAIN DepChains}

InitDeps ==
    InitWith([type |-> "personal", password |-> "abc", confirm |-> "abc"],
             DepChains)

NextDeps ==
    \/ \E r \in DepRuleSets : SetRules(r)
    \/ \E f \in DOMAIN values : \E v \in FieldValues(f) : SetValue(f, v)
    \/ \E f \in DOMAIN values : WatcherRuns(f)
    \/ \E i \in 1..Len(tasks) : WatcherResumes(i)
    \/ \E name \in Keys : Touch(name)
    \/ \E id \in DOMAIN pending : Resume(id)

SpecDeps == InitDeps /\ [][NextDeps]_vars

\* C31, under SpecDeps: for every path p, getDependentFields(p) is exactly
\* the set of rule paths of the current rule collection with a rule whose
\* dependsOn lists p: one hop only, and nothing of an earlier collection
C31_DependentsOfCurrentRules ==
    \A p \in Keys :
        getDependentFields(fieldDependencies, p) =
            {f \in DOMAIN rules :
                \E i \in 1..Len(rules[f]) :
                    p \in CrossFieldDependsOn(rules[f][i])}

\* the rules were replaced by a collection without the rule of confirm: the
\* dependents of password are none, and with both cross-field rules set
\* again type has the dependent password and not confirm
C31_Witness ==
    /\ hist.ops >= 2
    /\ rules = DepChains
    /\ getDependentFields(fieldDependencies, <<"type">>) = {<<"password">>}
    /\ getDependentFields(fieldDependencies, <<"password">>) = {<<"confirm">>}

----------------------------------------------------------------------------
(* The order of revalidations in a watcher callback, under SpecDeps *)

\* task t is still suspended, unchanged, after this step
StillSuspended(t) == \E j \in 1..Len(tasks') : tasks'[j] = t

\* C32, under SpecDeps: a watcher callback that is about to revalidate its
\* own field, or awaits that revalidation, does nothing else until the
\* revalidation has returned: from "about to" it only calls validateField for
\* its field, and while the invocation it awaits is suspended the callback
\* stays where it is.  So the revalidation of a dependent, which the callback
\* starts from a later position, starts only after the one of the field
C32_DependentsAfterOwnRevalidation ==
    [][\A i \in 1..Len(tasks) :
          /\ (tasks[i].pc = "selfWait" /\ tasks[i].id \in DOMAIN pending)
                => StillSuspended(tasks[i])
          /\ (tasks[i].pc = "selfTick")
                => \/ StillSuspended(tasks[i])
                   \/ /\ tasks'[i] = [tasks[i] EXCEPT !.pc = "selfWait",
                                                      !.id = nextId]
                      /\ nextId' = nextId + 1
      ]_vars

\* password and confirm were touched (invocations 1 and 2), password was
\* changed, its callback revalidated password (3), waited, and has started
\* the revalidation of the dependent confirm (4)
C32_Witness ==
    /\ nextId = 5
    /\ \E i \in 1..Len(tasks) :
          /\ tasks[i].field = "password"
          /\ tasks[i].pc = "depWait"
          /\ tasks[i].id = 4
    /\ 3 \notin DOMAIN pending

----------------------------------------------------------------------------
(* clearCache on a form with the field contact and the array contacts *)

RulesCache ==
    (<<"contact">> :> <<"required">>)
        @@ (<<"contacts", "*", "name">> :> <<"required", "customAsync">>)

InitCache ==
    InitWith([contact |-> "",
              contacts |-> <<[name |-> ""], [name |-> "abc"]>>], RulesCache)

\* the paths the application validates, and those it clears the cache of
CacheFields == {<<"contact">>, ContactName(0), ContactName(1)}
CachePaths ==
    CacheFields \cup {<<"contacts">>, <<"contacts", "0">>, <<"contacts", "1">>}

NextCache ==
    \/ \E name \in CacheFields : ValidateField(name)
    \/ \E id \in DOMAIN pending : Resume(id)
    \/ \E id \in DOMAIN pending :
          \E o \in {"true", "false"} : CustomSettles(id, o)
    \/ \E path \in CachePaths : ClearCache(path)
    \/ ClearCacheAll

SpecCache == InitCache /\ [][NextCache]_vars

\* key is path, or path followed by further segments
Under(path, key) ==
    \/ key = path
    \/ Len(key) > Len(path) /\ \A i \in 1..Len(path) : key[i] = path[i]

\* C33, under SpecCache: clearCache(p) removes the cache entries of p and of
\* the paths below p and no other (contact stays when contacts is cleared,
\* and the other way round), and leaves the errors and the in-progress flags
\* as they are; clearCache() leaves no cache entry, and the errors and the
\* flags as they are
C33_ClearCacheFrame ==
    [][/\ \A p \in CachePaths :
            ClearCache(p) =>
                /\ DOMAIN validationCache' =
                      {k \in DOMAIN validationCache : ~Under(p, k)}
                /\ \A k \in DOMAIN validationCache' :
                      validationCache'[k] = validationCache[k]
                /\ errors' = errors
                /\ isValidating' = isValidating
       /\ ClearCacheAll =>
                /\ DOMAIN validationCache' = {}
                /\ errors' = errors
                /\ isValidating' = isValidating
      ]_vars

\* contact and contacts.0.name were validated and failed, then
\* clearCache('contacts') was called: the entry of contact is still there,
\* the one of contacts.0.name is gone, the errors of both are kept
C33_Witness ==
    /\ hist.ops = 3
    /\ DOMAIN validationCache = {<<"contact">>}
    /\ ErrorsOf(errors, <<"contact">>) # <<>>
    /\ ErrorsOf(errors, ContactName(0)) # <<>>
    /\ pending = <<>>

----------------------------------------------------------------------------
(* The cached value of an array field that is changed in place *)

InitSnapshot ==
    \E chain \in {<<"atLeastOne">>, <<"atLeastOne", "customAsync">>} :
        InitWith([tags |-> <<>>], <<"tags">> :> chain)

NextSnapshot ==
    \/ \E item \in TagItems : PushItem("tags", item)
    \/ \E i \in 0..(MaxLen - 1) : SpliceItem("tags", i)
    \/ \E f \in DOMAIN values : WatcherRuns(f)
    \/ ValidateField(<<"tags">>)
    \/ \E id \in DOMAIN pending : Resume(id)
    \/ \E id \in DOMAIN pending :
          \E o \in {"true", "false"} : CustomSettles(id, o)

SpecSnapshot == InitSnapshot /\ [][NextSnapshot]_vars

\* the cache entry of tags was made for another content than the array has
TagsMutatedSinceCommit ==
    /\ <<"tags">> \in DOMAIN validationCache
    /\ validationCache[<<"tags">>].value # values.tags

----------------------------------------------------------------------------
(* Errors set by the application, then validateForm *)

MsgServer == "Rejected by the server"

\* the paths the application sets errors for: one with a rule, a nested one
\* and two top-level ones without
ServerPaths ==
    {ContactName(0), <<"contacts", "0", "phone">>, <<"contacts">>,
     <<"server">>}

NextServer ==
    \/ \E key \in ServerPaths :
          \E errorList \in {<<>>, <<MsgServer>>} : SetErrors(key, errorList)
    \/ \E name \in ArrayPaths : ValidateField(name)
    \/ \E id \in DOMAIN pending : Resume(id)
    \/ \E id \in DOMAIN pending :
          \E o \in {"true", "false"} : CustomSettles(id, o)
    \/ ValidateForm
    \/ FormJoin

SpecServer == InitArray /\ [][NextServer]_vars

\* C35 (as claimed), under SpecServer: when validateForm completes, every
\* path that holds a non-empty error list is one of the expanded fields the
\* call validated
C35_NoErrorsOutsideActiveFields ==
    [][(formCall.active /\ ~formCall'.active)
        => \A k \in DOMAIN errors' :
              errors'[k] # <<>> => k \in formCall.fields
      ]_vars

----------------------------------------------------------------------------
(* The promises of the debounced checker, with timers that fire and          *)
(* checkers that settle                                                      *)

\* the number of validateField calls made
MaxCalls == 4

\* validateField(name), called by the application again and again
DebouncedCall(name) ==
    /\ nextId <= MaxCalls
    /\ Apply(validateField(M, values, rules, name))
    /\ UNCHANGED <<values, ruleVars, touched, watchVars, formVars>>

NextDebounceLive ==
    \/ SetValue("username", "xyz")
    \/ WatcherRuns("username")
    \/ DebouncedCall(<<"username">>)
    \/ \E id \in DOMAIN pending : Resume(id)
    \/ \E id \in timers : TimerFires(id)
    \/ \E id \in running : CheckerSettles(id, "true")

\* a timer that was not cleared fires, an executing checker settles, and a
\* settled await resumes
FairDebounce ==
    /\ WF_vars(WatcherRuns("username"))
    /\ WF_vars(\E id \in DOMAIN pending : Resume(id))
    /\ WF_vars(\E id \in timers : TimerFires(id))
    /\ WF_vars(\E id \in running : CheckerSettles(id, "true"))

SpecDebounceLive ==
    InitDebounce /\ [][NextDebounceLive]_vars /\ FairDebounce

\* the promise the debounced function returned to invocation id is pending
PromisePending(id) ==
    /\ id \in DOMAIN pending
    /\ pending[id].p.via = "debounce"
    /\ pending[id].p.st = "pending"

\* C36 (as claimed), under SpecDebounceLive: every promise returned by the
\* debounced function is eventually rejected or settled with the checker's
\* result or failure
C36_NoPromisePendingForever ==
    \A id \in 1..(MaxCalls + 1) : PromisePending(id) ~> ~PromisePending(id)

----------------------------------------------------------------------------
(* The in-progress flags once every invocation has returned *)

\* C37 (as claimed), under SpecDispose: when no validateField invocation for
\* a path is suspended on a rule, the in-progress flag of the path is false
C37_FlagFalseWhenQuiescent ==
    \A p \in DOMAIN isValidating :
        (\A id \in DOMAIN pending : pending[id].key # p)
            => ~isValidating[p]

----------------------------------------------------------------------------
(* validateField and touch called with the rule path itself *)

\* the key of the rule collection
WildcardName == <<"contacts", "*", "name">>

NextStar ==
    \/ \E name \in ArrayPaths \cup {WildcardName} : ValidateField(name)
    \/ \E name \in {ContactName(0), WildcardName} : Touch(name)
    \/ \E id \in DOMAIN pending : Resume(id)
    \/ \E id \in DOMAIN pending :
          \E o \in {"true", "false"} : CustomSettles(id, o)
    \/ ValidateForm
    \/ FormJoin

SpecStar == InitArray /\ [][NextStar]_vars

\* C38 (as claimed), under SpecStar: no key of the error store or of the
\* validation cache contains the segment '*'
C38_KeysAreConcretePaths ==
    \A k \in (DOMAIN errors) \cup (DOMAIN validationCache) : ~HasWildcard(k)

----------------------------------------------------------------------------
(* The chain of a field is replaced between validations *)

CodeChains == {<<"required">>, <<"throwing">>, <<"customSync">>}

InitChains == InitWith([code |-> ""], <<"code">> :> <<"required">>)

NextChains ==
    \/ \E chain \in CodeChains : SetRules(<<"code">> :> chain)
    \/ \E v \in FieldValues("code") : SetValue("code", v)
    \/ WatcherRuns("code")
    \/ \E i \in 1..Len(tasks) : WatcherResumes(i)
    \/ ValidateField(<<"code">>)
    \/ Touch(<<"code">>)
    \/ \E id \in DOMAIN pending : Resume(id)

SpecChains == InitChains /\ [][NextChains]_vars

\* the errors a chain of one synchronous rule produces for value v
ChainErrors(chain, v) ==
    IF chain = <<"required">>
    THEN (IF Falsy(v) THEN <<MsgRequired>> ELSE <<>>)
    ELSE (IF Falsy(v) THEN <<MsgFault>> ELSE <<>>)

\* C39 (as claimed), under SpecChains: a validateField call for code made
\* under the chain R gave to code (the first call after setRules(R) among
\* them) stores the errors R's chain produces for the current value when the
\* chain is synchronous, and executes the chain when it is not
C39_ValidateUsesNewChain ==
    [][(nextId' = nextId + 1)
        => IF rules[<<"code">>] = <<"customSync">>
           THEN nextId \in DOMAIN pending'
           ELSE errors'[<<"code">>] =
                    ChainErrors(rules[<<"code">>], values.code)
      ]_vars

----------------------------------------------------------------------------
(* deepEqual on structured values *)

\* primitives and null
Scalars == {Leaf("p"), Leaf(Undefined), NullNode}

\* the plain objects with the given keys and the arrays of the given length
\* whose properties are taken from items
ObjectsOf(keys, items) ==
    {[Container("map") EXCEPT !.kids = f] : f \in [keys -> items]}

ArraysOf(length, items) ==
    {[Container("array") EXCEPT !.kids = f] :
        f \in [{IndexStr(i) : i \in 0..(length - 1)} -> items]}

Flat ==
    UNION {ObjectsOf(keys, Scalars) : keys \in SUBSET {"x", "y"}}
        \cup UNION {ArraysOf(n, Scalars) : n \in 0..2}

\* values that hold an object or an array under x
Deep ==
    ObjectsOf({"x"}, {Container("map"), Container("array"),
                      [Container("map") EXCEPT !.kids = "x" :> Leaf(Undefined)],
                      [Container("map") EXCEPT !.kids = "y" :> Leaf(Undefined)],
                      [Container("array") EXCEPT !.kids = "0" :> Leaf("p")]})

Structured == Scalars \cup Flat \cup Deep

\* the two values are kept as the items of one array
InitEqual ==
    \E a \in Structured, b \in Structured :
        InitState(<<>>, <<>>,
                  [Container("array") EXCEPT !.kids = ("0" :> a) @@ ("1" :> b)])

\* the application calls deepEqual(a, b) and deepEqual(b, a)
\* (observation: the two results)
DeepEqualCalls ==
    /\ hist.equal.n = 0
    /\ hist' = [hist EXCEPT !.equal =
                  [n |-> 1,
                   ab |-> deepEqualNodes(obj.kids["0"], obj.kids["1"]),
                   ba |-> deepEqualNodes(obj.kids["1"], obj.kids["0"])]]
    /\ UNCHANGED <<values, ruleVars, errors, touched, isValidating,
                   validationCache, abortControllers, aborted, pending,
                   nextId, timeoutId, pendingReject, timers, running,
                   watchVars, formVars>>

SpecEqual == InitEqual /\ [][DeepEqualCalls]_vars

\* C40 (as claimed), under SpecEqual: deepEqual(a, b) = deepEqual(b, a), and
\* deepEqual(a, b) is true only if a and b are of the same kind with the same
\* keys and equal values at every key, at every depth
C40_DeepEqualSymmetricAndSound ==
    hist.equal.n > 0
        => /\ hist.equal.ab = hist.equal.ba
           /\ hist.equal.ab => obj.kids["0"] = obj.kids["1"]

====
